---- MODULE Spec2Model ----
(***************************************************************************)
(* State-machine model of the signal-detection pipeline of                 *)
(* semantic-relevance: NoveltyTracker over a MemoryStorageAdapter          *)
(* (src/src/signal/novelty.js), EmbeddingContext                           *)
(* (src/src/signal/embeddings.js) and filterItems (filter.js, kept in      *)
(* src/unnamed/part_003).                                                  *)
(*                                                                         *)
(* Numbers.  Scores are real numbers in the code.  The model keeps the     *)
(* exact floor of Scale * score, computed with integers only, so that a    *)
(* comparison "score >= k / Scale" of the code is decided exactly.         *)
(* Time is counted in whole days (one tick of the clock = one day); a      *)
(* timestamp is the day number.  toISOString followed by new Date() is     *)
(* exact at the clock's resolution, so a stored timestamp is the number.   *)
(***************************************************************************)
EXTENDS Integers, Sequences, FiniteSets, TLC

(***************************************************************************)
(* Bounds of the model                                                     *)
(***************************************************************************)
Scale == 1000
InitialNow == 1
MaxTime == 3
MaxSeenCount == 2
MaxItems == 3
MaxConcurrency == 2
MaxBatchCalls == 2
MaxStamp == 1
MaxAdapterCalls == 2
MaxCacheSize == 2
MaxUses == 5
MaxCallers == 3

Ids == {"a", "b"}

VARIABLES
  now,             \* the wall clock read by new Date()
  storeData,       \* MemoryStorageAdapter.data : id -> record
  cache,           \* NoveltyTracker.cache : id -> record
  pendingUpdates,  \* NoveltyTracker.pendingUpdates : id -> record
  halfLifeDays,    \* NoveltyTracker.halfLifeDays
  minScore,        \* NoveltyTracker.minScore (scaled by Scale)
  loadOp,          \* a loadBatch suspended at `await this.storage.load`
  flushOp,         \* a flush suspended at `await this.storage.save`
  contextEmbedding,\* EmbeddingContext.contextEmbedding
  lru,             \* EmbeddingContext.cache : LRUCache entries, oldest first
  setCtxOp,        \* a setContext suspended in embed() at the provider call
  batch,           \* the batchRelevanceScores call: its locals and outcome
  tasks,           \* the getRelevanceScore promises of the current group
  embedded,        \* text -> number of embeddings the provider has returned
  batchCalls,      \* number of batchRelevanceScores calls made so far
  call,            \* the arguments of the filterItems call
  pc,              \* where the filterItems call stands
  validItems,      \* filterItems: validItems
  decisions,       \* filterItems: relevance and novelty of each loop iteration
  classified,      \* the items classifySignalType was invoked on, in order
  filteredItems,   \* filterItems: filteredItems
  result,          \* what the filterItems call returned
  seenIds,         \* FilterContext.seenIds of the run
  flushes,         \* the noveltyTracker.flush() calls the run has made
  signalKeywords,  \* FilterContext.signalKeywords : type -> exact, generic
  userGlobalKeywords, \* FilterContext.userGlobalKeywords
  classifyArg,     \* the item of the last classifySignalType call
  classification,  \* what the last classifySignalType call returned
  scoreOptions,    \* the options of the calculateSignalScore calls
  scoreArg,        \* the item of the last calculateSignalScore call
  scored,          \* the signalScore the last calculateSignalScore call gave
  adapter,         \* a File- or LocalStorageAdapter: its kind and maxEntries
  adapterData,     \* the adapter's this.data: null, or the Map in key order
  medium,          \* the file, or the localStorage item, the adapter uses
  io,              \* the adapter call suspended at a file operation
  done,            \* how the adapter's last call ended
  lastSaved,       \* the records of the save before, and the data it left
  lruCache,        \* an LRUCache's Map: its entries in key order
  lruMaxSize,      \* the LRUCache's maxSize
  lruRet,          \* the last call on the LRUCache and what it returned
  lastUse,         \* key -> the number of the last call that used the key
  uses,            \* the number of get and set calls made on the LRUCache
  sharedPipeline,  \* the module's sharedPipeline: 0 for null, or the number
                   \* of the pipeline() call whose result it holds
  pipelineCalls,   \* the number of pipeline() calls made so far
  callers,         \* the init() and embed() calls: where each one stands
  overlapping      \* the calls made on one FileStorageAdapter without
                   \* awaiting one another: where each one stands

trackerVars == <<now, storeData, cache, pendingUpdates, halfLifeDays, minScore,
                 loadOp, flushOp>>

embedVars == <<contextEmbedding, lru, setCtxOp, batch, tasks, embedded,
               batchCalls>>

filterVars == <<call, pc, validItems, decisions, classified, filteredItems,
                result, seenIds, flushes>>

adapterVars == <<adapter, adapterData, medium, io, done, lastSaved>>

classifyVars == <<signalKeywords, userGlobalKeywords, classifyArg,
                  classification>>

scoreVars == <<scoreOptions, scoreArg, scored>>

cacheVars == <<lruCache, lruMaxSize, lruRet, lastUse, uses>>

pipeVars == <<sharedPipeline, pipelineCalls, callers>>

overlapVars == <<overlapping>>

vars == <<trackerVars, embedVars, filterVars, adapterVars, classifyVars,
          scoreVars, cacheVars, pipeVars, overlapVars>>

\* what a component used on its own leaves alone
notTracker == <<embedVars, filterVars, adapterVars, classifyVars, scoreVars,
  cacheVars, pipeVars, overlapVars>>

notEmbed == <<trackerVars, filterVars, adapterVars, classifyVars, scoreVars,
  cacheVars, pipeVars, overlapVars>>

notFilter == <<adapterVars, classifyVars, scoreVars,
  cacheVars, pipeVars, overlapVars>>

notAdapter == <<trackerVars, embedVars, filterVars, classifyVars, scoreVars,
  cacheVars, pipeVars, overlapVars>>

notClassify == <<trackerVars, embedVars, filterVars, adapterVars, scoreVars,
  cacheVars, pipeVars, overlapVars>>

notScore == <<trackerVars, embedVars, filterVars, adapterVars, classifyVars,
  cacheVars, pipeVars, overlapVars>>

notCache == <<trackerVars, embedVars, filterVars, adapterVars, classifyVars,
              scoreVars, pipeVars, overlapVars>>

notPipe == <<trackerVars, embedVars, filterVars, adapterVars, classifyVars,
             scoreVars, cacheVars, overlapVars>>

\* overlapping calls act on the adapter's data and file only
notOverlap == <<trackerVars, embedVars, filterVars, classifyVars, scoreVars,
                cacheVars, pipeVars, adapter, io, done, lastSaved>>

(***************************************************************************)
(* JavaScript Map as a function over the set of its keys                   *)
(***************************************************************************)
EmptyMap == [x \in {} |-> 0]

MapSet(m, k, v) == [x \in DOMAIN m \cup {k} |-> IF x = k THEN v ELSE m[x]]

Has(m, k) == k \in DOMAIN m

NoOp == [op |-> "none"]

(***************************************************************************)
(* novelty.js: constants and constructor                                   *)
(***************************************************************************)
DEFAULT_HALF_LIFE_DAYS == 1

\* MIN_NOVELTY_SCORE = 0.1
MIN_NOVELTY_SCORE == Scale \div 10

\* options.halfLifeDays || DEFAULT_HALF_LIFE_DAYS ; 0 stands for an option
\* that is absent or falsy
ConfiguredHalfLife(opt) == IF opt = 0 THEN DEFAULT_HALF_LIFE_DAYS ELSE opt

\* options.minScore || MIN_NOVELTY_SCORE
ConfiguredMinScore(opt) == IF opt = 0 THEN MIN_NOVELTY_SCORE ELSE opt

\* the options objects passed to the constructor (minScore scaled by Scale)
TrackerOptions ==
  { [halfLifeDays |-> 0, minScore |-> (6 * Scale) \div 10],
    [halfLifeDays |-> 2, minScore |-> 0] }

(***************************************************************************)
(* Integer arithmetic                                                      *)
(***************************************************************************)
RECURSIVE Pow(_, _)
Pow(b, e) == IF e = 0 THEN 1 ELSE b * Pow(b, e - 1)

Max(x, y) == IF x >= y THEN x ELSE y

Min(x, y) == IF x <= y THEN x ELSE y

\* the largest n in lo..hi with n^h * den <= num  (P(lo) is known to hold)
RECURSIVE FloorRoot(_, _, _, _, _)
FloorRoot(lo, hi, h, num, den) ==
  IF lo = hi THEN lo
  ELSE LET mid == (lo + hi + 1) \div 2
       IN  IF Pow(mid, h) * den <= num
           THEN FloorRoot(mid, hi, h, num, den)
           ELSE FloorRoot(lo, mid - 1, h, num, den)

(***************************************************************************)
(* NoveltyTracker.getNoveltyScore                                          *)
(***************************************************************************)
\* floor(Scale * exp(-(ln 2 / h) * days)) = floor(Scale * 2^(-days/h)):
\* the largest n with n^h * 2^days <= Scale^h, and for days < 0 the largest
\* n with n^h <= Scale^h * 2^(-days).
DecayFloor(days, h) ==
  IF days >= 0
  THEN FloorRoot(0, Scale, h, Pow(Scale, h), Pow(2, days))
  ELSE FloorRoot(0, Scale * Pow(2, -days), h, Pow(Scale, h) * Pow(2, -days), 1)

HalfLives == { ConfiguredHalfLife(o.halfLifeDays) : o \in TrackerOptions }

\* the values of DecayFloor the model can ask for, computed once
DecayTable ==
  [d \in (0 - MaxTime)..MaxTime, h \in HalfLives |-> DecayFloor(d, h)]

\* Math.exp(-decayRate * daysSinceFirstSeen), scaled
DecayedNovelty(days, h) == DecayTable[days, h]

NoveltyOf_FromLastSeen(c, id, t, h, floor) ==
  IF ~Has(c, id) THEN Scale
  ELSE Max(floor, DecayedNovelty(t - c[id].lastSeen, h))

\* getNoveltyScore(itemId) against cache c at clock reading t
NoveltyOf(c, id, t, h, floor) ==
  IF ~Has(c, id) THEN Scale
  ELSE Max(floor, DecayedNovelty(t - c[id].firstSeen, h))

GetNoveltyScore(id) == NoveltyOf(cache, id, now, halfLifeDays, minScore)

(***************************************************************************)
(* NoveltyTracker.markSeen                                                 *)
(***************************************************************************)
NewRecord(id, t) ==
  [itemId |-> id, firstSeen |-> t, lastSeen |-> t, seenCount |-> 1]

SeenRecord_ResetsFirstSeen(c, id, t) == NewRecord(id, t)

\* the record markSeen writes for id at clock reading t
SeenRecord(c, id, t) ==
  IF Has(c, id)
  THEN [c[id] EXCEPT !.lastSeen = t,
                     !.seenCount = (IF @ = 0 THEN 1 ELSE @) + 1]
  ELSE NewRecord(id, t)

MarkSeen_WritesThrough(id) ==
  /\ Has(cache, id) => cache[id].seenCount < MaxSeenCount
  /\ cache' = MapSet(cache, id, SeenRecord(cache, id, now))
  /\ pendingUpdates' = MapSet(pendingUpdates, id, SeenRecord(cache, id, now))
  /\ storeData' = MapSet(storeData, id, SeenRecord(cache, id, now))
  /\ UNCHANGED <<now, halfLifeDays, minScore, loadOp, flushOp>>

MarkSeen(id) ==
  /\ Has(cache, id) => cache[id].seenCount < MaxSeenCount
  /\ cache' = MapSet(cache, id, SeenRecord(cache, id, now))
  /\ pendingUpdates' = MapSet(pendingUpdates, id, SeenRecord(cache, id, now))
  /\ UNCHANGED <<now, storeData, halfLifeDays, minScore, loadOp, flushOp>>

(***************************************************************************)
(* MemoryStorageAdapter.load / save                                        *)
(***************************************************************************)
StorageLoad(data, ids) == [x \in (ids \cap DOMAIN data) |-> data[x]]

StorageSave_KeepsExisting(data, records) ==
  [x \in DOMAIN data \cup DOMAIN records |->
     IF x \in DOMAIN data THEN data[x] ELSE records[x]]

StorageSave(data, records) ==
  [x \in DOMAIN data \cup DOMAIN records |->
     IF x \in DOMAIN records THEN records[x] ELSE data[x]]

(***************************************************************************)
(* NoveltyTracker.loadBatch: the call runs storage.load and suspends at    *)
(* the await; the continuation copies the result into the cache.           *)
(* The model's client keeps at most one of loadBatch and flush suspended   *)
(* at a time; markSeen and the clock interleave with it freely.            *)
(***************************************************************************)
\* no flush is suspended: none was called, or the last one has ended
NoFlush == flushOp.op \in {"none", "threw"}

LoadBatchCall(ids) ==
  /\ loadOp = NoOp /\ NoFlush
  /\ IF ids = {}
     THEN loadOp' = loadOp
     ELSE loadOp' = [op |-> "load", result |-> StorageLoad(storeData, ids)]
  /\ UNCHANGED <<now, storeData, cache, pendingUpdates, halfLifeDays, minScore,
                 flushOp>>

LoadBatchResume ==
  /\ loadOp # NoOp
  /\ cache' = [x \in DOMAIN cache \cup DOMAIN loadOp.result |->
                 IF x \in DOMAIN loadOp.result THEN loadOp.result[x]
                 ELSE cache[x]]
  /\ loadOp' = NoOp
  /\ UNCHANGED <<now, storeData, pendingUpdates, halfLifeDays, minScore,
                 flushOp>>

(***************************************************************************)
(* NoveltyTracker.flush: the call snapshots the pending records, runs      *)
(* storage.save and suspends at the await; the continuation clears the     *)
(* pending set.                                                            *)
(***************************************************************************)
FlushCall_SavesEmpty ==
  /\ NoFlush /\ loadOp = NoOp
  /\ flushOp' = [op |-> "flush", records |-> pendingUpdates]
  /\ storeData' = StorageSave(storeData, pendingUpdates)
  /\ UNCHANGED <<now, cache, pendingUpdates, halfLifeDays, minScore, loadOp>>

FlushCall ==
  /\ NoFlush /\ loadOp = NoOp
  /\ IF DOMAIN pendingUpdates = {}
     THEN /\ flushOp' = flushOp
          /\ storeData' = storeData
     ELSE /\ flushOp' = [op |-> "flush", records |-> pendingUpdates]
          /\ storeData' = StorageSave(storeData, pendingUpdates)
  /\ UNCHANGED <<now, cache, pendingUpdates, halfLifeDays, minScore, loadOp>>

FlushResume_KeepsPending ==
  /\ flushOp.op = "flush"
  /\ pendingUpdates' = pendingUpdates
  /\ flushOp' = NoOp
  /\ UNCHANGED <<now, storeData, cache, halfLifeDays, minScore, loadOp>>

FlushResume ==
  /\ flushOp.op = "flush"
  /\ pendingUpdates' = EmptyMap
  /\ flushOp' = NoOp
  /\ UNCHANGED <<now, storeData, cache, halfLifeDays, minScore, loadOp>>

\* flush over a storage whose save is going to reject, having written the
\* records or not
FlushCallFailing(written) ==
  /\ NoFlush /\ loadOp = NoOp
  /\ DOMAIN pendingUpdates # {}
  /\ flushOp' = [op |-> "flushFailing", records |-> pendingUpdates]
  /\ storeData' = IF written THEN StorageSave(storeData, pendingUpdates)
                  ELSE storeData
  /\ UNCHANGED <<now, cache, pendingUpdates, halfLifeDays, minScore, loadOp>>

FlushThrows_ClearsPending ==
  /\ flushOp.op = "flushFailing"
  /\ flushOp' = [op |-> "threw", records |-> flushOp.records]
  /\ pendingUpdates' = EmptyMap
  /\ UNCHANGED <<now, storeData, cache, halfLifeDays, minScore, loadOp>>

\* save rejects: the await throws, flush rejects with the error and
\* `this.pendingUpdates.clear()` is not reached
FlushThrows ==
  /\ flushOp.op = "flushFailing"
  /\ flushOp' = [op |-> "threw", records |-> flushOp.records]
  /\ UNCHANGED <<now, storeData, cache, pendingUpdates, halfLifeDays, minScore,
                 loadOp>>

(***************************************************************************)
(* The clock                                                               *)
(***************************************************************************)
Tick ==
  /\ now < MaxTime
  /\ now' = now + 1
  /\ UNCHANGED <<storeData, cache, pendingUpdates, halfLifeDays, minScore,
                 loadOp, flushOp>>

(***************************************************************************)
(* A tracker created over a storage that earlier runs have written         *)
(***************************************************************************)
StoredRecords(times) == { NewRecord(id, t) : id \in Ids, t \in times }

\* the ids earlier runs may have stored (the other ids are new to the store)
PreStoredIds == {"a"}

Stores(times) ==
  { m \in UNION { [D -> StoredRecords(times)] : D \in SUBSET PreStoredIds } :
      \A x \in DOMAIN m : m[x].itemId = x /\ m[x].firstSeen <= m[x].lastSeen }

\* new NoveltyTracker(options) over a storage
NewTracker(options, stores) ==
  /\ now = InitialNow
  /\ storeData \in stores
  /\ cache = EmptyMap
  /\ pendingUpdates = EmptyMap
  /\ \E o \in options :
       /\ halfLifeDays = ConfiguredHalfLife(o.halfLifeDays)
       /\ minScore = ConfiguredMinScore(o.minScore)
  /\ loadOp = NoOp
  /\ flushOp = NoOp

TrackerInit(times) == NewTracker(TrackerOptions, Stores(times))

TrackerNext ==
  \/ \E id \in Ids : MarkSeen(id) /\ UNCHANGED notTracker
  \/ \E ids \in SUBSET Ids : LoadBatchCall(ids) /\ UNCHANGED notTracker
  \/ LoadBatchResume /\ UNCHANGED notTracker
  \/ FlushCall /\ UNCHANGED notTracker
  \/ FlushResume /\ UNCHANGED notTracker
  \/ Tick /\ UNCHANGED notTracker

\* markSeen and flush over a storage whose save may reject
FailingStoreNext ==
  \/ \E id \in Ids : MarkSeen(id) /\ UNCHANGED notTracker
  \/ FlushCall /\ UNCHANGED notTracker
  \/ FlushResume /\ UNCHANGED notTracker
  \/ \E written \in BOOLEAN : FlushCallFailing(written) /\ UNCHANGED notTracker
  \/ FlushThrows /\ UNCHANGED notTracker

(***************************************************************************)
(* Items and texts.  A text is the sequence of its UTF-16 code units.      *)
(***************************************************************************)
NoText == << >>

\* "Aa" and "BB": two texts with the same hashString value; "C"
TextAa == <<65, 97>>
TextBB == <<66, 66>>
TextC == <<67>>

Space == <<32>>

\* the items callers pass; isObject = FALSE stands for null or a non-object
ItemPool ==
  << [isObject |-> TRUE, id |-> "a", title |-> TextAa, description |-> NoText],
     [isObject |-> TRUE, id |-> "b", title |-> NoText, description |-> TextAa],
     [isObject |-> TRUE, id |-> "a", title |-> TextBB, description |-> NoText],
     [isObject |-> TRUE, id |-> "c", title |-> NoText, description |-> NoText],
     [isObject |-> TRUE, id |-> "", title |-> TextAa, description |-> NoText],
     [isObject |-> FALSE, id |-> "", title |-> NoText, description |-> NoText] >>

\* the items handed to batchRelevanceScores directly
ScoredItems == {1, 2, 3, 4}

\* all sequences over S of length at most n
SeqsUpTo(S, n) == UNION { [1..k -> S] : k \in 0..n }

\* String.prototype.trim
RECURSIVE Trim(_)
Trim(t) ==
  IF t = << >> THEN t
  ELSE IF Head(t) = 32 THEN Trim(Tail(t))
  ELSE IF t[Len(t)] = 32 THEN Trim(SubSeq(t, 1, Len(t) - 1))
  ELSE t

\* `${item.title || ''} ${item.description || ''}`.trim()
ItemText(item) == Trim(item.title \o Space \o item.description)

\* hashString: hash = ((hash << 5) - hash) + char, kept to 32 bits.  For the
\* texts of the model the value stays far below 2^31, where `hash & hash`
\* changes nothing; toString(36) is one-to-one, so the key is the number.
RECURSIVE HashFrom(_, _, _)
HashFrom(hash, t, i) ==
  IF i > Len(t) THEN hash
  ELSE HashFrom(((hash * 32) - hash) + t[i], t, i + 1)

HashString(t) == HashFrom(0, t, 1)

(***************************************************************************)
(* The embedding provider (sharedPipeline): a stateless function of the    *)
(* text that either returns a vector or throws.  Vectors are kept as       *)
(* pairs of small integers.                                                *)
(***************************************************************************)
NoEmbedding == << >>

ModelVector(t) ==
  CASE t = TextAa -> <<3, 1>>
    [] t = TextBB -> <<-2, 3>>
    [] t = TextC -> <<2, 2>>
    [] OTHER -> <<1, 0>>

Texts == {TextAa, TextBB, TextC}

Vectors == { ModelVector(t) : t \in Texts }

\* dotProduct / magnitude clamped to [-1, 1], as floor(Scale * value)
CosineFloor(a, b) ==
  LET dotProduct == a[1] * b[1] + a[2] * b[2]
      normA == a[1] * a[1] + a[2] * a[2]
      normB == b[1] * b[1] + b[2] * b[2]
      root == FloorRoot(0, Scale, 2, Scale * Scale * dotProduct * dotProduct,
                        normA * normB)
  IN  IF normA * normB = 0 THEN 0
      ELSE IF dotProduct >= 0 THEN Max(0 - Scale, Min(Scale, root))
      ELSE IF root * root * normA * normB = Scale * Scale * dotProduct * dotProduct
           THEN Max(0 - Scale, 0 - root)
           ELSE Max(0 - Scale, 0 - (root + 1))

\* the similarities the model can ask for, computed once
CosineTable == [a \in Vectors, b \in Vectors |-> CosineFloor(a, b)]

\* cosineSimilarity(a, b)
CosineSimilarity(a, b) == CosineTable[a, b]

(***************************************************************************)
(* LRUCache: a sequence of <<key, value>>, least recently used first       *)
(***************************************************************************)
DEFAULT_CACHE_SIZE == 1000

LruHas(c, k) == \E i \in 1..Len(c) : c[i][1] = k

LruIndex(c, k) == CHOOSE i \in 1..Len(c) : c[i][1] = k

LruDelete(c, k) ==
  IF LruHas(c, k)
  THEN SubSeq(c, 1, LruIndex(c, k) - 1) \o SubSeq(c, LruIndex(c, k) + 1, Len(c))
  ELSE c

\* LRUCache.get: the value (NoEmbedding for a miss) ...
LruValue(c, k) == IF LruHas(c, k) THEN c[LruIndex(c, k)][2] ELSE NoEmbedding

LruAfterGet_KeepsPlace(c, k) == c

\* ... and the cache after it: a hit moves the key to the most recent end
LruAfterGet(c, k) ==
  IF LruHas(c, k) THEN Append(LruDelete(c, k), <<k, LruValue(c, k)>>) ELSE c

\* LRUCache.set
LruSet(c, maxSize, k, v) ==
  IF LruHas(c, k) THEN Append(LruDelete(c, k), <<k, v>>)
  ELSE IF Len(c) >= maxSize THEN Append(Tail(c), <<k, v>>)
  ELSE Append(c, <<k, v>>)

(***************************************************************************)
(* EmbeddingContext.getRelevanceScore / embed, up to the first await.      *)
(* Result: the promise (a task) and the cache after cache.get.             *)
(***************************************************************************)
Task(i, st, score, err, invoked) ==
  [item |-> i, st |-> st, score |-> score, err |-> err, invoked |-> invoked]

StartScore_TextCheckedFirst(i, ctx, c) ==
  LET text == ItemText(ItemPool[i])
      key == HashString(text)
  IN  IF text = NoText
      THEN [task |-> Task(i, "fulfilled", 0, "", FALSE), lru |-> c]
      ELSE IF ctx = NoEmbedding
      THEN [task |-> Task(i, "rejected", 0, "NoContext", FALSE), lru |-> c]
      ELSE IF LruHas(c, key)
      THEN [task |-> Task(i, "fulfilled",
                          CosineSimilarity(ctx, LruValue(c, key)), "", FALSE),
            lru |-> LruAfterGet(c, key)]
      ELSE [task |-> Task(i, "pending", 0, "", TRUE), lru |-> c]

StartScore(i, ctx, c) ==
  LET text == ItemText(ItemPool[i])
      key == HashString(text)
  IN  IF ctx = NoEmbedding
      THEN [task |-> Task(i, "rejected", 0, "NoContext", FALSE), lru |-> c]
      ELSE IF text = NoText
      THEN [task |-> Task(i, "fulfilled", 0, "", FALSE), lru |-> c]
      ELSE IF LruHas(c, key)
      THEN [task |-> Task(i, "fulfilled",
                          CosineSimilarity(ctx, LruValue(c, key)), "", FALSE),
            lru |-> LruAfterGet(c, key)]
      ELSE [task |-> Task(i, "pending", 0, "", TRUE), lru |-> c]

\* batch.map(item => this.getRelevanceScore(item)...): every call of the
\* group runs to its first await, in order, before anything is awaited
RECURSIVE StartGroup(_, _, _, _, _)
StartGroup(slice, k, ctx, c, acc) ==
  IF k > Len(slice) THEN [tasks |-> acc, lru |-> c]
  ELSE LET r == StartScore(slice[k], ctx, c)
       IN  StartGroup(slice, k + 1, ctx, r.lru, Append(acc, r.task))

\* results.forEach(({ id, score }) => scores.set(id, score))
RECURSIVE MergeScores(_, _, _)
MergeScores(scores, ts, k) ==
  IF k > Len(ts) THEN scores
  ELSE MergeScores(MapSet(scores, ItemPool[ts[k].item].id, ts[k].score), ts, k + 1)

\* Array.prototype.slice's reading of an index: a negative one counts from
\* the end, and the result stays within 0..length
SliceIndex(items, x) ==
  IF x < 0 THEN Max(Len(items) + x, 0) ELSE Min(x, Len(items))

Slice_OneMore(items, i, n) ==
  SubSeq(items, SliceIndex(items, i) + 1, SliceIndex(items, i + n + 1))

\* items.slice(i, i + concurrency)
Slice(items, i, n) ==
  SubSeq(items, SliceIndex(items, i) + 1, SliceIndex(items, i + n))

\* `i += concurrency`.  Below -items.length every value of i reads the same
\* in `i < items.length` and in slice, so the model keeps i at
\* -(items.length + 1) once it is there.
NextIndex(b) == Max(b.i + b.concurrency, 0 - (Len(b.items) + 1))

(***************************************************************************)
(* batchRelevanceScores from `await Promise.all(promises)` on: Promise.all *)
(* rejects with the first rejection, resolves when every promise of the    *)
(* group is fulfilled, and the loop then starts the next group.  A group   *)
(* of no item is awaited like any other: `await Promise.all([])` ends the  *)
(* turn, and the loop goes on in a turn of its own (BatchTurn).            *)
(***************************************************************************)
RECURSIVE Settle(_, _, _, _)
Settle(b, ts, ctx, c) ==
  IF \E k \in 1..Len(ts) : ts[k].st = "rejected"
  THEN [batch |-> [b EXCEPT !.status = "failed"], tasks |-> ts, lru |-> c]
  ELSE IF \E k \in 1..Len(ts) : ts[k].st = "pending"
  THEN [batch |-> b, tasks |-> ts, lru |-> c]
  ELSE LET merged == [b EXCEPT !.scores = MergeScores(b.scores, ts, 1),
                               !.i = NextIndex(b)]
       IN  IF merged.i < Len(b.items)
           THEN LET g == StartGroup(Slice(b.items, merged.i, b.concurrency),
                                    1, ctx, c, << >>)
                IN  IF g.tasks = << >>
                    THEN [batch |-> merged, tasks |-> << >>, lru |-> g.lru]
                    ELSE Settle(merged, g.tasks, ctx, g.lru)
           ELSE [batch |-> [merged EXCEPT !.status = "done"],
                 tasks |-> ts, lru |-> c]

IdleBatch ==
  [status |-> "idle", items |-> << >>, i |-> 0, concurrency |-> 1,
   scores |-> EmptyMap, hadContext |-> FALSE, turn |-> 0]

Quiet ==
  /\ setCtxOp = NoOp
  /\ batch.status # "running"
  /\ \A k \in 1..Len(tasks) : tasks[k].st # "pending"

\* batchRelevanceScores(items, { concurrency })
BatchRelevanceScores(items, concurrency) ==
  /\ Quiet
  /\ batchCalls < MaxBatchCalls
  /\ batchCalls' = batchCalls + 1
  /\ LET b == [status |-> "running", items |-> items, i |-> 0,
               concurrency |-> concurrency, scores |-> EmptyMap,
               hadContext |-> contextEmbedding # NoEmbedding, turn |-> 0]
         g == StartGroup(Slice(items, 0, concurrency), 1, contextEmbedding,
                         lru, << >>)
         r == IF items = << >>
              THEN [batch |-> [b EXCEPT !.status = "done"], tasks |-> << >>,
                    lru |-> lru]
              ELSE IF g.tasks = << >>
              THEN [batch |-> b, tasks |-> << >>, lru |-> g.lru]
              ELSE Settle(b, g.tasks, contextEmbedding, g.lru)
     IN  /\ batch' = r.batch
         /\ tasks' = r.tasks
         /\ lru' = r.lru
  /\ UNCHANGED <<contextEmbedding, setCtxOp, embedded>>

\* the provider answers the embed() call of task k: embed stores the vector
\* in the cache and getRelevanceScore returns the similarity; or it throws
ProviderAnswers(k, ok) ==
  /\ k \in 1..Len(tasks)
  /\ tasks[k].st = "pending"
  /\ LET text == ItemText(ItemPool[tasks[k].item])
         vec == ModelVector(text)
         c == IF ok THEN LruSet(lru, DEFAULT_CACHE_SIZE, HashString(text), vec)
              ELSE lru
         ts == [tasks EXCEPT ![k] =
                  IF ok
                  THEN Task(@.item, "fulfilled",
                            CosineSimilarity(contextEmbedding, vec), "", TRUE)
                  ELSE Task(@.item, "rejected", 0, "Provider", TRUE)]
         r == IF batch.status = "running"
              THEN Settle(batch, ts, contextEmbedding, c)
              ELSE [batch |-> batch, tasks |-> ts, lru |-> c]
     IN  /\ batch' = r.batch
         /\ tasks' = r.tasks
         /\ lru' = r.lru
         /\ embedded' = IF ok THEN [embedded EXCEPT ![text] = @ + 1]
                        ELSE embedded
  /\ UNCHANGED <<contextEmbedding, setCtxOp, batchCalls>>

\* the loop resumes from `await Promise.all(promises)` of a group of no
\* item: nothing to merge, `i += concurrency`, and the next group.  The
\* turns of such groups are counted modulo 2 in batch.turn.
BatchTurn ==
  /\ batch.status = "running"
  /\ tasks = << >>
  /\ LET r == Settle(batch, tasks, contextEmbedding, lru)
     IN  /\ batch' = [r.batch EXCEPT !.turn = 1 - @]
         /\ tasks' = r.tasks
         /\ lru' = r.lru
  /\ UNCHANGED <<contextEmbedding, setCtxOp, embedded, batchCalls>>

(***************************************************************************)
(* EmbeddingContext.setContext: embed(contextText), suspended at the       *)
(* provider call unless the cache has the text                             *)
(***************************************************************************)
SetContextCall(text) ==
  /\ Quiet
  /\ contextEmbedding = NoEmbedding
  /\ IF LruHas(lru, HashString(text))
     THEN /\ contextEmbedding' = LruValue(lru, HashString(text))
          /\ lru' = LruAfterGet(lru, HashString(text))
          /\ setCtxOp' = setCtxOp
     ELSE /\ setCtxOp' = [op |-> "setContext", text |-> text]
          /\ UNCHANGED <<contextEmbedding, lru>>
  /\ UNCHANGED <<batch, tasks, embedded, batchCalls>>

SetContextAnswers(ok) ==
  /\ setCtxOp # NoOp
  /\ setCtxOp' = NoOp
  /\ IF ok
     THEN /\ lru' = LruSet(lru, DEFAULT_CACHE_SIZE, HashString(setCtxOp.text),
                           ModelVector(setCtxOp.text))
          /\ contextEmbedding' = ModelVector(setCtxOp.text)
          /\ embedded' = [embedded EXCEPT ![setCtxOp.text] = @ + 1]
     ELSE UNCHANGED <<lru, contextEmbedding, embedded>>
  /\ UNCHANGED <<batch, tasks, batchCalls>>

\* new EmbeddingContext(); the caller's items and concurrency are fixed
\* when the behaviour starts
NewEmbeddingContext(lists, widths) ==
  /\ contextEmbedding = NoEmbedding
  /\ lru = << >>
  /\ setCtxOp = NoOp
  /\ \E items \in lists, c \in widths :
       batch = [IdleBatch EXCEPT !.items = items, !.concurrency = c]
  /\ tasks = << >>
  /\ embedded = [t \in Texts |-> 0]
  /\ batchCalls = 0

EmbedNext ==
  \/ \E text \in {TextC} : SetContextCall(text) /\ UNCHANGED notEmbed
  \/ \E ok \in BOOLEAN : SetContextAnswers(ok) /\ UNCHANGED notEmbed
  \/ BatchRelevanceScores(batch.items, batch.concurrency) /\ UNCHANGED notEmbed
  \/ \E k \in 1..MaxItems, ok \in BOOLEAN :
       ProviderAnswers(k, ok) /\ UNCHANGED notEmbed

\* no tracker in use: a default one over an empty store, never called
TrackerIdle ==
  NewTracker({[halfLifeDays |-> 0, minScore |-> 0]}, {EmptyMap})

\* an EmbeddingContext nobody calls
EmbedIdle == NewEmbeddingContext({<< >>}, {1})

EmbedInit ==
  NewEmbeddingContext(SeqsUpTo(ScoredItems, MaxItems), 1..MaxConcurrency)

(***************************************************************************)
(* FileStorageAdapter and LocalStorageAdapter (novelty.js).  this.data is  *)
(* a Map: the sequence of its records in insertion order, one per itemId.  *)
(***************************************************************************)
EntryHas(entries, id) == \E k \in 1..Len(entries) : entries[k].itemId = id

\* Map.prototype.set: an existing key keeps its place, a new key goes last
EntrySet(entries, record) ==
  IF EntryHas(entries, record.itemId)
  THEN [k \in 1..Len(entries) |->
          IF entries[k].itemId = record.itemId THEN record ELSE entries[k]]
  ELSE Append(entries, record)

\* for (const record of records) this.data.set(record.itemId, record)
RECURSIVE SetAll(_, _)
SetAll(entries, records) ==
  IF records = << >> THEN entries
  ELSE SetAll(EntrySet(entries, Head(records)), Tail(records))

\* new Date(r.lastSeen || r.firstSeen).getTime(): the tracker's records
\* always carry lastSeen
SeenTime(record) == record.lastSeen

\* entries.sort((a, b) => aTime - bTime): stable, oldest first
RECURSIVE InsertByTime(_, _)
InsertByTime(sorted, x) ==
  IF sorted = << >> THEN <<x>>
  ELSE IF SeenTime(Head(sorted)) <= SeenTime(x)
       THEN <<Head(sorted)>> \o InsertByTime(Tail(sorted), x)
       ELSE <<x>> \o sorted

RECURSIVE SortByTime(_, _)
SortByTime(sorted, rest) ==
  IF rest = << >> THEN sorted
  ELSE SortByTime(InsertByTime(sorted, Head(rest)), Tail(rest))

RECURSIVE DeleteAll(_, _)
DeleteAll(entries, removed) ==
  IF entries = << >> THEN << >>
  ELSE IF EntryHas(removed, Head(entries).itemId)
       THEN DeleteAll(Tail(entries), removed)
       ELSE <<Head(entries)>> \o DeleteAll(Tail(entries), removed)

Pruned_NewestFirst(entries, maxEntries) ==
  IF Len(entries) > maxEntries
  THEN DeleteAll(entries,
                 SubSeq(SortByTime(<< >>, entries), maxEntries + 1, Len(entries)))
  ELSE entries

\* if (this.data.size > this.maxEntries): delete the first
\* entries.length - maxEntries entries of the sorted list
Pruned(entries, maxEntries) ==
  IF Len(entries) > maxEntries
  THEN DeleteAll(entries,
                 SubSeq(SortByTime(<< >>, entries), 1, Len(entries) - maxEntries))
  ELSE entries

\* save(records) up to the write: the new this.data
SavedData(entries, records, maxEntries) ==
  Pruned(SetAll(entries, records), maxEntries)

\* load(itemIds) after _ensureLoaded: the records of the ids this.data has
LoadedResult(entries, ids) ==
  [x \in { id \in ids : EntryHas(entries, id) } |->
     entries[CHOOSE k \in 1..Len(entries) : entries[k].itemId = x]]

(***************************************************************************)
(* The adapter's calls.  LocalStorageAdapter runs a call in one piece;     *)
(* FileStorageAdapter suspends at fs.readFile (first use) and at           *)
(* fs.writeFile.  One call is made at a time.                              *)
(***************************************************************************)
NoIo == [call |-> "none", at |-> "none", ids |-> {}, records |-> << >>]

NoData == [loaded |-> FALSE, entries |-> << >>]

Loaded(entries) == [loaded |-> TRUE, entries |-> entries]

NoMedium == [exists |-> FALSE, valid |-> FALSE, entries |-> << >>]

\* a file, or item, whose text is not JSON
BrokenMedium == [exists |-> TRUE, valid |-> FALSE, entries |-> << >>]

\* JSON.stringify(Object.fromEntries(this.data)) written out: parsing it
\* back gives the records in the same key order
Written(entries) == [exists |-> TRUE, valid |-> TRUE, entries |-> entries]

\* how a call ended: threw = it rejected; failed = a backend operation
\* (getItem, JSON.parse, setItem, readFile other than ENOENT, writeFile)
\* failed while it ran
Ended(name, threw, failed, loaded) ==
  [call |-> name, threw |-> threw, failed |-> failed, result |-> loaded,
   calls |-> done.calls + 1]

Range(list) == { list[k] : k \in 1..Len(list) }

\* the save that has just made `entries` of the Map `before` and `records`:
\* what it dropped, whether it repeats the save before it, and what that
\* one had left
Saved(records, before, entries) ==
  [saves |-> lastSaved.saves + 1, records |-> records, entries |-> entries,
   dropped |-> Range(SetAll(before, records)) \ Range(entries),
   repeats |-> lastSaved.saves > 0 /\ lastSaved.records = records,
   previous |-> lastSaved.entries]

\* LocalStorageAdapter._ensureLoaded: any failure is caught and leaves an
\* empty Map
LocalEnsureLoaded(getItemThrows) ==
  IF adapterData.loaded THEN [entries |-> adapterData.entries, failed |-> FALSE]
  ELSE IF getItemThrows \/ (medium.exists /\ ~medium.valid)
  THEN [entries |-> << >>, failed |-> TRUE]
  ELSE IF medium.exists THEN [entries |-> medium.entries, failed |-> FALSE]
  ELSE [entries |-> << >>, failed |-> FALSE]

\* LocalStorageAdapter.load(itemIds); getItem is called, and can throw, only
\* while this.data is null
LocalLoad(ids, getItemThrows) ==
  /\ adapter.kind = "localStorage"
  /\ io = NoIo /\ done.calls < MaxAdapterCalls
  /\ getItemThrows => ~adapterData.loaded
  /\ LET e == LocalEnsureLoaded(getItemThrows)
     IN  /\ adapterData' = Loaded(e.entries)
         /\ done' = Ended("load", FALSE, e.failed, LoadedResult(e.entries, ids))
  /\ UNCHANGED <<adapter, medium, io, lastSaved>>

\* LocalStorageAdapter.save(records)
LocalSave(records, getItemThrows, setItemThrows) ==
  /\ adapter.kind = "localStorage"
  /\ io = NoIo /\ done.calls < MaxAdapterCalls
  /\ getItemThrows => ~adapterData.loaded
  /\ LET e == LocalEnsureLoaded(getItemThrows)
         entries == SavedData(e.entries, records, adapter.maxEntries)
     IN  /\ adapterData' = Loaded(entries)
         /\ medium' = IF setItemThrows THEN medium ELSE Written(entries)
         /\ done' = Ended("save", FALSE, e.failed \/ setItemThrows, EmptyMap)
         /\ lastSaved' = Saved(records, e.entries, entries)
  /\ UNCHANGED <<adapter, io>>

\* FileStorageAdapter.load(itemIds) up to its first suspension
FileLoad(ids) ==
  /\ adapter.kind = "file"
  /\ io = NoIo /\ done.calls < MaxAdapterCalls
  /\ IF adapterData.loaded
     THEN /\ done' = Ended("load", FALSE, FALSE,
                           LoadedResult(adapterData.entries, ids))
          /\ io' = io
     ELSE /\ io' = [call |-> "load", at |-> "read", ids |-> ids,
                    records |-> << >>]
          /\ done' = done
  /\ UNCHANGED <<adapter, adapterData, medium, lastSaved>>

\* FileStorageAdapter.save(records) up to its first suspension
FileSave(records) ==
  /\ adapter.kind = "file"
  /\ io = NoIo /\ done.calls < MaxAdapterCalls
  /\ IF adapterData.loaded
     THEN LET entries ==
                SavedData(adapterData.entries, records, adapter.maxEntries)
          IN  /\ adapterData' = Loaded(entries)
              /\ lastSaved' = Saved(records, adapterData.entries, entries)
              /\ io' = [call |-> "save", at |-> "write", ids |-> {},
                        records |-> records]
     ELSE /\ io' = [call |-> "save", at |-> "read", ids |-> {},
                    records |-> records]
          /\ UNCHANGED <<adapterData, lastSaved>>
  /\ UNCHANGED <<adapter, medium, done>>

\* fs.readFile of _ensureLoaded settles: ENOENT gives an empty Map, any
\* other error and a text that is not JSON are thrown
FileReadAnswers(readFails) ==
  /\ io.at = "read"
  /\ IF readFails \/ (medium.exists /\ ~medium.valid)
     THEN /\ done' = Ended(io.call, TRUE, TRUE, EmptyMap)
          /\ io' = NoIo
          /\ UNCHANGED <<adapterData, lastSaved>>
     ELSE LET read == IF medium.exists THEN medium.entries ELSE << >>
              entries == SavedData(read, io.records, adapter.maxEntries)
          IN  IF io.call = "load"
              THEN /\ adapterData' = Loaded(read)
                   /\ done' = Ended("load", FALSE, FALSE,
                                    LoadedResult(read, io.ids))
                   /\ io' = NoIo
                   /\ lastSaved' = lastSaved
              ELSE /\ adapterData' = Loaded(entries)
                   /\ lastSaved' = Saved(io.records, read, entries)
                   /\ io' = [io EXCEPT !.at = "write"]
                   /\ done' = done
  /\ UNCHANGED <<adapter, medium>>

\* fs.writeFile settles; a failed write leaves the old file or a partial one
FileWriteAnswers(ok, partial) ==
  /\ io.at = "write"
  /\ io' = NoIo
  /\ IF ok
     THEN /\ ~partial
          /\ medium' = Written(adapterData.entries)
          /\ done' = Ended("save", FALSE, FALSE, EmptyMap)
     ELSE /\ medium' = IF partial THEN BrokenMedium ELSE medium
          /\ done' = Ended("save", TRUE, TRUE, EmptyMap)
  /\ UNCHANGED <<adapter, adapterData, lastSaved>>

AdapterRecords == { NewRecord(id, t) : id \in Ids, t \in 0..MaxStamp }

\* lists of records with one record per id, as the values of a Map
RecordLists ==
  { l \in SeqsUpTo(AdapterRecords, Cardinality(Ids)) :
      \A j, k \in 1..Len(l) : l[j].itemId = l[k].itemId => j = k }

\* what earlier instances, possibly with a larger cap, or other programs
\* have left: nothing, a text that is not JSON, or a map of records
Media == {NoMedium, BrokenMedium} \cup { Written(l) : l \in RecordLists }

AdapterKinds == {"file", "localStorage"}

\* options.maxEntries: fewer than the ids there are, or as many
NewAdapter(kinds) ==
  /\ adapter \in [kind : kinds, maxEntries : 1..Cardinality(Ids)]
  /\ adapterData = NoData
  /\ medium \in Media
  /\ io = NoIo
  /\ done = [call |-> "none", threw |-> FALSE, failed |-> FALSE,
             result |-> EmptyMap, calls |-> 0]
  /\ lastSaved = [saves |-> 0, records |-> << >>, entries |-> << >>,
                  dropped |-> {}, repeats |-> FALSE, previous |-> << >>]

\* no adapter of these kinds in use
AdapterIdle ==
  /\ adapter = [kind |-> "none", maxEntries |-> 1]
  /\ adapterData = NoData
  /\ medium = NoMedium
  /\ io = NoIo
  /\ done = [call |-> "none", threw |-> FALSE, failed |-> FALSE,
             result |-> EmptyMap, calls |-> 0]
  /\ lastSaved = [saves |-> 0, records |-> << >>, entries |-> << >>,
                  dropped |-> {}, repeats |-> FALSE, previous |-> << >>]

AdapterNext ==
  \/ \E ids \in {{"a"}, Ids}, g \in BOOLEAN :
       LocalLoad(ids, g) /\ UNCHANGED notAdapter
  \/ \E records \in RecordLists, g \in BOOLEAN, w \in BOOLEAN :
       LocalSave(records, g, w) /\ UNCHANGED notAdapter
  \/ \E ids \in {{"a"}, Ids} : FileLoad(ids) /\ UNCHANGED notAdapter
  \/ \E records \in RecordLists : FileSave(records) /\ UNCHANGED notAdapter
  \/ \E readFails \in BOOLEAN : FileReadAnswers(readFails) /\ UNCHANGED notAdapter
  \/ \E ok \in BOOLEAN, partial \in BOOLEAN :
       FileWriteAnswers(ok, partial) /\ UNCHANGED notAdapter

(***************************************************************************)
(* FileStorageAdapter: two calls made without awaiting one another.  A     *)
(* call stands at fs.readFile of _ensureLoaded ("read"), at the await of   *)
(* _ensureLoaded in load or save ("ensured"), at `await import` before the *)
(* write ("import") or at fs.writeFile ("write").                          *)
(***************************************************************************)
OverlapCalls == 1..2

\* no calls are made together
OverlapIdle == overlapping = << >>

\* what the two calls are: load(ids) or save(records)
OverlapArgs ==
  { [op |-> "load", at |-> "idle", ids |-> Ids, records |-> << >>,
     obj |-> << >>, result |-> EmptyMap] }
    \cup { [op |-> "save", at |-> "idle", ids |-> {},
            records |-> <<NewRecord(id, MaxStamp)>>, obj |-> << >>,
            result |-> EmptyMap] : id \in Ids }

\* load or save is called: _ensureLoaded returns at once when this.data is
\* set, and goes to read the file when it is null
OverlapCall(p) ==
  /\ overlapping[p].at = "idle"
  /\ overlapping' = [overlapping EXCEPT ![p].at =
                       IF adapterData.loaded THEN "ensured" ELSE "read"]
  /\ UNCHANGED <<adapterData, medium>>

\* fs.readFile settles for call p: `this.data = new Map(...)` of what the
\* file holds now, an empty Map for ENOENT; a text that is not JSON throws
OverlapReadAnswers(p) ==
  /\ overlapping[p].at = "read"
  /\ IF medium.exists /\ ~medium.valid
     THEN /\ overlapping' = [overlapping EXCEPT ![p].at = "threw"]
          /\ UNCHANGED adapterData
     ELSE /\ adapterData' = Loaded(IF medium.exists THEN medium.entries
                                   ELSE << >>)
          /\ overlapping' = [overlapping EXCEPT ![p].at = "ensured"]
  /\ UNCHANGED medium

\* the call resumes from `await this._ensureLoaded()`: load returns the
\* records of its ids; save sets its records, prunes, and awaits the import
OverlapEnsured(p) ==
  /\ overlapping[p].at = "ensured"
  /\ IF overlapping[p].op = "load"
     THEN /\ overlapping' =
               [overlapping EXCEPT
                  ![p].at = "done",
                  ![p].result = LoadedResult(adapterData.entries,
                                             overlapping[p].ids)]
          /\ UNCHANGED adapterData
     ELSE /\ adapterData' = Loaded(SavedData(adapterData.entries,
                                             overlapping[p].records,
                                             adapter.maxEntries))
          /\ overlapping' = [overlapping EXCEPT ![p].at = "import"]
  /\ UNCHANGED medium

\* save resumes from the import: Object.fromEntries(this.data) is taken and
\* fs.writeFile is called with it
OverlapImported(p) ==
  /\ overlapping[p].at = "import"
  /\ overlapping' = [overlapping EXCEPT ![p].at = "write",
                                        ![p].obj = adapterData.entries]
  /\ UNCHANGED <<adapterData, medium>>

\* fs.writeFile settles: the file holds what the call wrote
OverlapWriteAnswers(p) ==
  /\ overlapping[p].at = "write"
  /\ medium' = Written(overlapping[p].obj)
  /\ overlapping' = [overlapping EXCEPT ![p].at = "done"]
  /\ UNCHANGED adapterData

OverlapNext ==
  \/ \E p \in OverlapCalls : OverlapCall(p) /\ UNCHANGED notOverlap
  \/ \E p \in OverlapCalls : OverlapReadAnswers(p) /\ UNCHANGED notOverlap
  \/ \E p \in OverlapCalls : OverlapEnsured(p) /\ UNCHANGED notOverlap
  \/ \E p \in OverlapCalls : OverlapImported(p) /\ UNCHANGED notOverlap
  \/ \E p \in OverlapCalls : OverlapWriteAnswers(p) /\ UNCHANGED notOverlap

(***************************************************************************)
(* FilterContext.classifySignalType (filter.js).  Texts and keywords are    *)
(* sequences of character codes.                                           *)
(***************************************************************************)
MaxKeywords == 2

\* const SIGNAL_TYPES, which is also the key order of signalKeywords
SIGNAL_TYPES ==
  <<"competitive", "thesis-challenging", "opportunity", "technical", "trend">>

SignalTypes == { SIGNAL_TYPES[k] : k \in 1..Len(SIGNAL_TYPES) }

\* String.prototype.toLowerCase, on one character
LowerChar(c) == IF c >= 65 /\ c <= 90 THEN c + 32 ELSE c

\* /[a-z0-9]/i
IsAlnum(c) ==
  \/ c >= 48 /\ c <= 57
  \/ c >= 65 /\ c <= 90
  \/ c >= 97 /\ c <= 122

\* \w of a RegExp: \b lies between a \w and a non-\w character
IsWordChar(c) == IsAlnum(c) \/ c = 95

\* /^[a-z0-9]+$/i.test(keyword)
IsAlphanumericOnly(keyword) ==
  keyword # << >> /\ \A j \in 1..Len(keyword) : IsAlnum(keyword[j])

\* the keyword stands in the text at position p, letter case apart
MatchesAt(text, keyword, p) ==
  /\ p + Len(keyword) - 1 <= Len(text)
  /\ \A j \in 1..Len(keyword) : LowerChar(text[p + j - 1]) = LowerChar(keyword[j])

\* new RegExp(`\\b${escaped}\\b`, 'i').test(text)
RegExpTest(text, keyword) ==
  \E p \in 1..Len(text) :
    /\ MatchesAt(text, keyword, p)
    /\ p = 1 \/ ~IsWordChar(text[p - 1])
    /\ p + Len(keyword) > Len(text) \/ ~IsWordChar(text[p + Len(keyword)])

\* textLower.indexOf(keywordLower), counted from 1; 0 when absent
IndexOf(text, keyword) ==
  LET found == { p \in 1..(Len(text) + 1) : MatchesAt(text, keyword, p) }
  IN  IF found = {} THEN 0
      ELSE CHOOSE p \in found : \A q \in found : p <= q

\* hasKeyword
HasKeyword(text, keyword) ==
  IF IsAlphanumericOnly(keyword) THEN RegExpTest(text, keyword)
  ELSE LET idx == IndexOf(text, keyword)
           afterIdx == idx + Len(keyword)
       IN  /\ idx # 0
           /\ idx = 1 \/ ~IsAlnum(text[idx - 1])
           /\ afterIdx > Len(text) \/ ~IsAlnum(text[afterIdx])

\* `${item.title || ''} ${item.description || ''}`
ClassifiedText(item) == item.title \o Space \o item.description

NoMatch == [null |-> TRUE, type |-> "", keyword |-> NoText]

\* the first keyword of the list that the text has
RECURSIVE FirstKeyword(_, _, _)
FirstKeyword(list, text, type) ==
  IF list = << >> THEN NoMatch
  ELSE IF HasKeyword(text, Head(list))
       THEN [null |-> FALSE, type |-> type, keyword |-> Head(list)]
       ELSE FirstKeyword(Tail(list), text, type)

\* one pass over Object.entries(this.signalKeywords), from the k-th type on,
\* through the lists of one kind
RECURSIVE FirstOfKind(_, _, _, _)
FirstOfKind(keywords, kind, text, k) ==
  IF k > Len(SIGNAL_TYPES) THEN NoMatch
  ELSE LET m == FirstKeyword(keywords[SIGNAL_TYPES[k]][kind], text, SIGNAL_TYPES[k])
       IN  IF m.null THEN FirstOfKind(keywords, kind, text, k + 1) ELSE m

NoKeyword == [null |-> TRUE, text |-> NoText]

Keyword(text) == [null |-> FALSE, text |-> text]

Fallback_AlwaysWatched(global) ==
  [type |-> "technical", keywordConfidence |-> "high",
   matchedKeyword |-> Keyword(global.keyword), isWatched |-> TRUE]

\* the end of classifySignalType, once no exact and no generic keyword
\* matched; `if (matchedGlobalKeyword)` is false for null and for ''
Fallback(global) ==
  IF ~global.null /\ global.keyword # NoText
  THEN [type |-> "technical", keywordConfidence |-> "high",
        matchedKeyword |-> Keyword(global.keyword), isWatched |-> TRUE]
  ELSE [type |-> "technical", keywordConfidence |-> "low",
        matchedKeyword |-> NoKeyword, isWatched |-> FALSE]

ClassifySignalType_GenericFirst(keywords, globals, item) ==
  LET text == ClassifiedText(item)
      global == FirstKeyword(globals, text, "")
      truthy == ~global.null /\ global.keyword # NoText
      exact == FirstOfKind(keywords, "exact", text, 1)
      generic == FirstOfKind(keywords, "generic", text, 1)
  IN  IF ~generic.null
      THEN [type |-> generic.type,
            keywordConfidence |-> IF truthy THEN "high" ELSE "medium",
            matchedKeyword |-> IF truthy THEN Keyword(global.keyword)
                               ELSE Keyword(generic.keyword),
            isWatched |-> ~global.null]
      ELSE IF ~exact.null
      THEN [type |-> exact.type, keywordConfidence |-> "high",
            matchedKeyword |-> Keyword(exact.keyword),
            isWatched |-> ~global.null]
      ELSE Fallback(global)

\* classifySignalType(item) of a FilterContext holding these keywords
ClassifySignalType(keywords, globals, item) ==
  LET text == ClassifiedText(item)
      global == FirstKeyword(globals, text, "")
      truthy == ~global.null /\ global.keyword # NoText
      exact == FirstOfKind(keywords, "exact", text, 1)
      generic == FirstOfKind(keywords, "generic", text, 1)
  IN  IF ~exact.null
      THEN [type |-> exact.type, keywordConfidence |-> "high",
            matchedKeyword |-> Keyword(exact.keyword),
            isWatched |-> ~global.null]
      ELSE IF ~generic.null
      THEN [type |-> generic.type,
            keywordConfidence |-> IF truthy THEN "high" ELSE "medium",
            matchedKeyword |-> IF truthy THEN Keyword(global.keyword)
                               ELSE Keyword(generic.keyword),
            isWatched |-> ~global.null]
      ELSE Fallback(global)

\* the items classified: titles and descriptions "Aa", "BB", "baa aa",
\* "a-b", "aa_", "C" and none
TextBaaAa == <<98, 97, 97, 32, 97, 97>>

TextAdashB == <<97, 45, 98>>

TextAaUnderscore == <<97, 97, 95>>

ClassifiedItems ==
  { [title |-> TextAa, description |-> NoText],
    [title |-> NoText, description |-> TextBB],
    [title |-> TextBaaAa, description |-> NoText],
    [title |-> TextAdashB, description |-> TextBB],
    [title |-> TextAaUnderscore, description |-> NoText],
    [title |-> TextC, description |-> TextC],
    [title |-> NoText, description |-> NoText] }

\* the keywords, lower case as setSignalKeywords and the context parser
\* leave them: "aa", "bb", "a-b"
KeywordAa == <<97, 97>>

KeywordBb == <<98, 98>>

Keywords == { KeywordAa, KeywordBb, TextAdashB }

NoKeywords ==
  [t \in SignalTypes |-> [exact |-> << >>, generic |-> << >>]]

\* one more keyword at the end of one list
WithKeyword(keywords, entry) ==
  [keywords EXCEPT ![entry.type][entry.kind] = Append(@, entry.keyword)]

RECURSIVE WithKeywords(_, _)
WithKeywords(keywords, entries) ==
  IF entries = << >> THEN keywords
  ELSE WithKeywords(WithKeyword(keywords, Head(entries)), Tail(entries))

KeywordEntries ==
  [type : SignalTypes, kind : {"exact", "generic"}, keyword : Keywords]

\* the signalKeywords setSignalKeywords can leave: at most MaxKeywords
\* keywords over all lists
KeywordSets ==
  { WithKeywords(NoKeywords, entries) : entries \in SeqsUpTo(KeywordEntries, MaxKeywords) }

\* userKeywords.global, lower case: none, one keyword, or the empty string
GlobalKeywordLists == {<< >>, <<NoText>>} \cup { <<k>> : k \in Keywords }

NoClassification ==
  [type |-> "none", keywordConfidence |-> "none", matchedKeyword |-> NoKeyword,
   isWatched |-> FALSE]

NoItem == [title |-> NoText, description |-> NoText]

\* a FilterContext after setSignalKeywords
NewFilterContext(keywordSets, globalLists) ==
  /\ signalKeywords \in keywordSets
  /\ userGlobalKeywords \in globalLists
  /\ classifyArg = NoItem
  /\ classification = NoClassification

\* no FilterContext classifies anything
ClassifyIdle == NewFilterContext({NoKeywords}, {<< >>})

\* filterCtx.classifySignalType(item)
Classify(item) ==
  /\ classifyArg' = item
  /\ classification' = ClassifySignalType(signalKeywords, userGlobalKeywords, item)
  /\ UNCHANGED <<signalKeywords, userGlobalKeywords>>

ClassifyNext ==
  \E item \in ClassifiedItems : Classify(item) /\ UNCHANGED notClassify

(***************************************************************************)
(* filterItems (filter.js): arguments                                      *)
(***************************************************************************)
\* const DEFAULT_RELEVANCE_THRESHOLD = 0.30, DEFAULT_NOVELTY_THRESHOLD = 0.5
DEFAULT_RELEVANCE_THRESHOLD == (30 * Scale) \div 100

DEFAULT_NOVELTY_THRESHOLD == (5 * Scale) \div 10

\* the items argument: absent (null or undefined) or a list of pool items
ItemsArgs ==
  {[given |-> FALSE, list |-> << >>]}
    \cup { [given |-> TRUE, list |-> l] : l \in SeqsUpTo(1..Len(ItemPool), MaxItems) }

\* the context argument: a document, the empty string, or not a string
ContextArgs ==
  { [isString |-> TRUE, text |-> TextC],
    [isString |-> TRUE, text |-> NoText],
    [isString |-> FALSE, text |-> NoText] }

NoCall ==
  [items |-> [given |-> FALSE, list |-> << >>],
   context |-> [isString |-> FALSE, text |-> NoText],
   relevanceThreshold |-> DEFAULT_RELEVANCE_THRESHOLD,
   noveltyThreshold |-> DEFAULT_NOVELTY_THRESHOLD,
   concurrency |-> 1,
   noveltyTracker |-> FALSE,
   existingIds |-> {}]

NoResult == [returned |-> FALSE, list |-> << >>]

\* nobody calls filterItems
FilterIdle ==
  /\ call = NoCall
  /\ pc = "idle"
  /\ validItems = << >>
  /\ decisions = << >>
  /\ classified = << >>
  /\ filteredItems = << >>
  /\ result = NoResult
  /\ seenIds = {}
  /\ flushes = 0

(***************************************************************************)
(* filterItems: input validation                                           *)
(***************************************************************************)
Validation_ContextFirst(items, context) ==
  IF ~context.isString \/ context.text = NoText THEN "throw"
  ELSE IF ~items.given \/ items.list = << >> THEN "empty"
  ELSE "ok"

\* `if (!items || items.length === 0) return []` and then
\* `if (!context || typeof context !== 'string') throw`
Validation(items, context) ==
  IF ~items.given \/ items.list = << >> THEN "empty"
  ELSE IF ~context.isString \/ context.text = NoText THEN "throw"
  ELSE "ok"

\* the test of items.filter: an object with a truthy id
IsValidItem(item) == item.isObject /\ item.id # ""

RECURSIVE SelectValid(_)
SelectValid(list) ==
  IF list = << >> THEN << >>
  ELSE IF IsValidItem(ItemPool[Head(list)])
       THEN <<Head(list)>> \o SelectValid(Tail(list))
       ELSE SelectValid(Tail(list))

(***************************************************************************)
(* filterItems: the loop over validItems                                   *)
(***************************************************************************)
\* Math.round(x * 100) of a score kept as floor(Scale * x)
Round100(x) == (x + (Scale \div 200)) \div (Scale \div 100)

Passes_EitherThreshold(relevance, novelty, relevanceThreshold, noveltyThreshold) ==
  relevance >= relevanceThreshold \/ novelty >= noveltyThreshold

\* passesRelevance && passesNovelty, with a NoveltyTracker
Passes(relevance, novelty, relevanceThreshold, noveltyThreshold) ==
  relevance >= relevanceThreshold /\ novelty >= noveltyThreshold

PassesUnseen_UsesThreshold(relevance, novelty, relevanceThreshold, noveltyThreshold) ==
  relevance >= relevanceThreshold /\ novelty >= noveltyThreshold

\* passesRelevance && passesNovelty, without a NoveltyTracker: `novelty > 0`
PassesUnseen(relevance, novelty, relevanceThreshold, noveltyThreshold) ==
  relevance >= relevanceThreshold /\ novelty > 0

\* FilterContext.getNoveltyScore
SeenNovelty(seen, id) == IF id \in seen THEN 0 ELSE Scale

LoopStep_MarksOnce(acc, i, scores, t, h, floor, c) ==
  LET item == ItemPool[i]
      relevance == IF Has(scores, item.id) THEN scores[item.id] ELSE 0
      novelty == IF c.noveltyTracker
                 THEN NoveltyOf(acc.cache, item.id, t, h, floor)
                 ELSE SeenNovelty(acc.seenIds, item.id)
      record == SeenRecord(acc.cache, item.id, t)
      marks == c.noveltyTracker /\ item.id \notin acc.seenIds
      kept == IF c.noveltyTracker
              THEN Passes(relevance, novelty, c.relevanceThreshold,
                          c.noveltyThreshold)
              ELSE PassesUnseen(relevance, novelty, c.relevanceThreshold,
                                c.noveltyThreshold)
  IN  [cache |-> IF marks THEN MapSet(acc.cache, item.id, record) ELSE acc.cache,
       pendingUpdates |->
         IF marks
         THEN MapSet(acc.pendingUpdates, item.id, record)
         ELSE acc.pendingUpdates,
       seenIds |-> acc.seenIds \cup {item.id},
       decisions |-> Append(acc.decisions,
                            [item |-> i, relevance |-> relevance,
                             novelty |-> novelty]),
       classified |-> IF kept THEN Append(acc.classified, i) ELSE acc.classified,
       filteredItems |->
         IF kept
         THEN Append(acc.filteredItems,
                     [item |-> i, relevance_score |-> Round100(relevance),
                      novelty_score |-> Round100(novelty)])
         ELSE acc.filteredItems]

\* one iteration for item i at clock reading t; acc holds the tracker's maps,
\* the FilterContext's seenIds and the lists built so far
LoopStep(acc, i, scores, t, h, floor, c) ==
  LET item == ItemPool[i]
      relevance == IF Has(scores, item.id) THEN scores[item.id] ELSE 0
      novelty == IF c.noveltyTracker
                 THEN NoveltyOf(acc.cache, item.id, t, h, floor)
                 ELSE SeenNovelty(acc.seenIds, item.id)
      record == SeenRecord(acc.cache, item.id, t)
      kept == IF c.noveltyTracker
              THEN Passes(relevance, novelty, c.relevanceThreshold,
                          c.noveltyThreshold)
              ELSE PassesUnseen(relevance, novelty, c.relevanceThreshold,
                                c.noveltyThreshold)
  IN  [cache |-> IF c.noveltyTracker
                 THEN MapSet(acc.cache, item.id, record) ELSE acc.cache,
       pendingUpdates |->
         IF c.noveltyTracker
         THEN MapSet(acc.pendingUpdates, item.id, record)
         ELSE acc.pendingUpdates,
       seenIds |-> acc.seenIds \cup {item.id},
       decisions |-> Append(acc.decisions,
                            [item |-> i, relevance |-> relevance,
                             novelty |-> novelty]),
       classified |-> IF kept THEN Append(acc.classified, i) ELSE acc.classified,
       filteredItems |->
         IF kept
         THEN Append(acc.filteredItems,
                     [item |-> i, relevance_score |-> Round100(relevance),
                      novelty_score |-> Round100(novelty)])
         ELSE acc.filteredItems]

RECURSIVE Loop(_, _, _, _, _, _, _)
Loop(acc, list, scores, t, h, floor, c) ==
  IF list = << >> THEN acc
  ELSE Loop(LoopStep(acc, Head(list), scores, t, h, floor, c), Tail(list),
            scores, t, h, floor, c)

(***************************************************************************)
(* scoring.js: calculateSignalScore and scoreAndSortSignals for the items  *)
(* of the pool, which carry no timestamp, source or metadata               *)
(***************************************************************************)
\* weights, in hundredths
relevanceWeight == 45

recencyWeight == 35

engagementWeight == 20

\* calculateRecencyScore(null) and calculateEngagementScore's default
NoTimestampRecency == 50

DefaultEngagement == 50

\* Math.round(n / d) for d > 0: the nearest integer, halves upwards
RoundDiv(n, d) == (2 * n + d) \div (2 * d)

SignalScore(signal) ==
  RoundDiv(signal.relevance_score * relevanceWeight
             + NoTimestampRecency * recencyWeight
             + DefaultEngagement * engagementWeight, 100)

RECURSIVE InsertByScore_BeforeEquals(_, _)
InsertByScore_BeforeEquals(sorted, x) ==
  IF sorted = << >> THEN <<x>>
  ELSE IF Head(sorted).signalScore > x.signalScore
       THEN <<Head(sorted)>> \o InsertByScore_BeforeEquals(Tail(sorted), x)
       ELSE <<x>> \o sorted

\* Array.prototype.sort((a, b) => b.signalScore - a.signalScore): stable
RECURSIVE InsertByScore(_, _)
InsertByScore(sorted, x) ==
  IF sorted = << >> THEN <<x>>
  ELSE IF Head(sorted).signalScore >= x.signalScore
       THEN <<Head(sorted)>> \o InsertByScore(Tail(sorted), x)
       ELSE <<x>> \o sorted

RECURSIVE SortByScore(_, _)
SortByScore(sorted, rest) ==
  IF rest = << >> THEN sorted
  ELSE SortByScore(InsertByScore(sorted, Head(rest)), Tail(rest))

ScoreAndSortSignals(signals) ==
  SortByScore(<< >>,
              [k \in 1..Len(signals) |->
                 [item |-> signals[k].item,
                  relevance_score |-> signals[k].relevance_score,
                  novelty_score |-> signals[k].novelty_score,
                  signalScore |-> SignalScore(signals[k])]])

(***************************************************************************)
(* scoring.js: calculateSignalScore called directly, on any item and with  *)
(* any weights.  Scores are integers; a weight is in hundredths; NaN is a   *)
(* value of its own.                                                       *)
(***************************************************************************)
NaN == [nan |-> TRUE, value |-> 0]

Number(n) == [nan |-> FALSE, value |-> n]

\* const CONFIDENCE_SCORES
CONFIDENCE_SCORES == [high |-> 100, medium |-> 70, low |-> 40]

\* the timestamps items carry: none, one that Date cannot parse, and one as
\* many recency half-lives (7 days) old as halfLives says, -1 being ahead of
\* the clock
Timestamps ==
  { [kind |-> "none", halfLives |-> 0], [kind |-> "invalid", halfLives |-> 0] }
    \cup [kind : {"date"}, halfLives : -1..2]

\* calculateRecencyScore(timestamp)
CalculateRecencyScore(timestamp) ==
  IF timestamp.kind = "none" THEN Number(NoTimestampRecency)
  ELSE IF timestamp.kind = "invalid" THEN NaN
  ELSE LET score == IF timestamp.halfLives < 0
                    THEN 100 * Pow(2, 0 - timestamp.halfLives)
                    ELSE 100 \div Pow(2, timestamp.halfLives)
       IN  Number(Max(0, Min(100, score)))

\* calculateEngagementScore(item) for an item of no known source: from
\* metadata.likes, 0 standing for none
CalculateEngagementScore(likes) ==
  Max(0, Min(100, IF likes # 0 THEN Min(100, likes \div 10)
                  ELSE DefaultEngagement))

\* the relevance calculateSignalScore starts from
RelevanceInput(filter_result) ==
  IF filter_result.hasScore THEN filter_result.relevance_score
  ELSE CONFIDENCE_SCORES[filter_result.confidence]

\* the signalScore of calculateSignalScore(item, options)
CalculateSignalScore(item, options) ==
  LET recency == CalculateRecencyScore(item.timestamp)
  IN  IF recency.nan THEN NaN
      ELSE Number(RoundDiv(RelevanceInput(item.filter_result) * options.relevanceWeight
                             + recency.value * options.recencyWeight
                             + CalculateEngagementScore(item.likes)
                                 * options.engagementWeight, 100))

DefaultWeights ==
  [relevanceWeight |-> relevanceWeight, recencyWeight |-> recencyWeight,
   engagementWeight |-> engagementWeight]

\* options: the defaults, every weight 1, every weight 0.5, relevance only
WeightTriples ==
  { DefaultWeights,
    [relevanceWeight |-> 100, recencyWeight |-> 100, engagementWeight |-> 100],
    [relevanceWeight |-> 50, recencyWeight |-> 50, engagementWeight |-> 50],
    [relevanceWeight |-> 100, recencyWeight |-> 0, engagementWeight |-> 0] }

\* filter_result: a relevance_score filterItems can write (Math.round of
\* 100 times a cosine), or only a confidence
FilterResults ==
  [hasScore : {TRUE}, relevance_score : {-20, 0, 30, 89, 100},
   confidence : {"medium"}]
    \cup [hasScore : {FALSE}, relevance_score : {0},
          confidence : {"high", "medium", "low"}]

ScoredSignals ==
  [filter_result : FilterResults, timestamp : Timestamps, likes : {0, 300, 2000}]

NoSignal ==
  [filter_result |-> [hasScore |-> FALSE, relevance_score |-> 0,
                      confidence |-> "medium"],
   timestamp |-> [kind |-> "none", halfLives |-> 0], likes |-> 0]

NoScore == [called |-> FALSE, signalScore |-> Number(0)]

\* calculateSignalScore is about to be called with one of these options
NewScoring(options) ==
  /\ scoreOptions \in options
  /\ scoreArg = NoSignal
  /\ scored = NoScore

\* nobody calls calculateSignalScore directly
ScoreIdle == NewScoring({DefaultWeights})

\* calculateSignalScore(item, options)
Score(item) ==
  /\ scoreArg' = item
  /\ scored' = [called |-> TRUE,
                signalScore |-> CalculateSignalScore(item, scoreOptions)]
  /\ UNCHANGED scoreOptions

ScoreNext == \E item \in ScoredSignals : Score(item) /\ UNCHANGED notScore

(***************************************************************************)
(* filterItems as a process: one action per stretch of code between two    *)
(* awaits.  The run owns a new EmbeddingContext and the caller's           *)
(* NoveltyTracker.                                                         *)
(***************************************************************************)
ItemIds(list) == { ItemPool[list[k]].id : k \in 1..Len(list) }

\* from the call to `await embeddingCtx.setContext(context)`
FilterItemsCall ==
  /\ pc = "called"
  /\ LET v == Validation(call.items, call.context)
         valid == SelectValid(call.items.list)
     IN  IF v = "throw"
         THEN /\ pc' = "threw"
              /\ UNCHANGED <<validItems, result, seenIds, embedVars>>
         ELSE IF v = "empty" \/ valid = << >>
         THEN /\ pc' = "returned"
              /\ result' = [returned |-> TRUE, list |-> << >>]
              /\ UNCHANGED <<validItems, seenIds, embedVars>>
         ELSE /\ pc' = "setContext"
              /\ validItems' = valid
              /\ seenIds' = call.existingIds
              /\ SetContextCall(call.context.text)
              /\ UNCHANGED result
  /\ UNCHANGED <<call, decisions, classified, filteredItems, flushes,
                 trackerVars>>

\* setContext settles; on success, with a NoveltyTracker, up to
\* `await noveltyTracker.loadBatch`
FilterContextSet(ok) ==
  /\ pc = "setContext"
  /\ SetContextAnswers(ok)
  /\ IF ok /\ call.noveltyTracker
     THEN /\ LoadBatchCall(ItemIds(validItems))
          /\ pc' = "loadBatch"
     ELSE /\ pc' = IF ok THEN "contextSet" ELSE "threw"
          /\ UNCHANGED trackerVars
  /\ UNCHANGED <<call, validItems, decisions, classified, filteredItems, result,
                 seenIds, flushes>>

\* without a NoveltyTracker: from the return of setContext up to
\* `await embeddingCtx.batchRelevanceScores`
FilterContextReady ==
  /\ pc = "contextSet"
  /\ BatchRelevanceScores(validItems, call.concurrency)
  /\ pc' = IF batch'.status = "failed" THEN "threw" ELSE "scoring"
  /\ UNCHANGED <<call, validItems, decisions, classified, filteredItems, result,
                 seenIds, flushes, trackerVars>>

\* loadBatch returns; up to `await embeddingCtx.batchRelevanceScores`
FilterLoaded ==
  /\ pc = "loadBatch"
  /\ LoadBatchResume
  /\ BatchRelevanceScores(validItems, call.concurrency)
  /\ pc' = IF batch'.status = "failed" THEN "threw" ELSE "scoring"
  /\ UNCHANGED <<call, validItems, decisions, classified, filteredItems, result,
                 seenIds, flushes>>

\* the provider answers one embed call of the batch; a rejection of the
\* batch is thrown by filterItems, and calls still in flight answer later
FilterProviderAnswers(k, ok) ==
  /\ pc \in {"scoring", "threw"}
  /\ ProviderAnswers(k, ok)
  /\ pc' = IF pc = "scoring" /\ batch'.status = "failed" THEN "threw" ELSE pc
  /\ UNCHANGED <<call, validItems, decisions, classified, filteredItems, result,
                 seenIds, flushes, trackerVars>>

\* batchRelevanceScores returned: the loop, and then, with a NoveltyTracker,
\* up to `await noveltyTracker.flush`; without one, scoreAndSortSignals and
\* the return
FilterLoop ==
  /\ pc = "scoring"
  /\ batch.status = "done"
  /\ LET acc == Loop([cache |-> cache, pendingUpdates |-> pendingUpdates,
                      seenIds |-> seenIds,
                      decisions |-> << >>, classified |-> << >>,
                      filteredItems |-> << >>],
                     validItems, batch.scores, now, halfLifeDays, minScore, call)
     IN  /\ decisions' = acc.decisions
         /\ classified' = acc.classified
         /\ filteredItems' = acc.filteredItems
         /\ seenIds' = acc.seenIds
         /\ IF call.noveltyTracker
            THEN /\ cache' = acc.cache
                 /\ flushOp' = [op |-> "flush", records |-> acc.pendingUpdates]
                 /\ pendingUpdates' = acc.pendingUpdates
                 /\ storeData' = StorageSave(storeData, acc.pendingUpdates)
                 /\ flushes' = flushes + 1
                 /\ pc' = "flush"
                 /\ UNCHANGED result
            ELSE /\ result' = [returned |-> TRUE,
                               list |-> ScoreAndSortSignals(acc.filteredItems)]
                 /\ pc' = "returned"
                 /\ UNCHANGED <<cache, flushOp, pendingUpdates, storeData,
                                flushes>>
  /\ UNCHANGED <<now, halfLifeDays, minScore, loadOp>>
  /\ UNCHANGED <<call, validItems, embedVars>>

\* flush returns: scoreAndSortSignals and the return
FilterFlushed ==
  /\ pc = "flush"
  /\ FlushResume
  /\ result' = [returned |-> TRUE, list |-> ScoreAndSortSignals(filteredItems)]
  /\ pc' = "returned"
  /\ UNCHANGED <<call, validItems, decisions, classified, filteredItems,
                 seenIds, flushes, embedVars>>

\* a day passes while the run is suspended at an await; only the
\* NoveltyTracker reads the clock
FilterTick ==
  /\ pc \in {"setContext", "loadBatch", "scoring", "flush"}
  /\ call.noveltyTracker
  /\ Tick
  /\ UNCHANGED <<embedVars, filterVars>>

FilterNext ==
  \/ FilterItemsCall /\ UNCHANGED notFilter
  \/ \E ok \in BOOLEAN : FilterContextSet(ok) /\ UNCHANGED notFilter
  \/ FilterContextReady /\ UNCHANGED notFilter
  \/ FilterLoaded /\ UNCHANGED notFilter
  \/ \E k \in 1..MaxConcurrency, ok \in BOOLEAN :
       FilterProviderAnswers(k, ok) /\ UNCHANGED notFilter
  \/ FilterLoop /\ UNCHANGED notFilter
  \/ FilterFlushed /\ UNCHANGED notFilter
  \/ FilterTick /\ UNCHANGED notFilter

RelevanceThresholds == {DEFAULT_RELEVANCE_THRESHOLD}

NoveltyThresholds == {DEFAULT_NOVELTY_THRESHOLD}

\* the thresholds of the runs without a NoveltyTracker: the defaults, or
\* { relevanceThreshold: 0.1, noveltyThreshold: 0 }
LowRelevanceThreshold == Scale \div 10

UnseenThresholds ==
  { [relevance |-> DEFAULT_RELEVANCE_THRESHOLD,
     novelty |-> DEFAULT_NOVELTY_THRESHOLD],
    [relevance |-> LowRelevanceThreshold, novelty |-> 0] }

\* options.existingIds, as a set
ExistingIdsArgs == { {}, {"b"} }

\* filterItems(items, context, { relevanceThreshold, noveltyThreshold,
\* concurrency, noveltyTracker, existingIds }) has been called
FilterInit(thresholds, trackers, existing) ==
  /\ \E th \in thresholds :
       call \in [items : ItemsArgs, context : ContextArgs,
                 relevanceThreshold : {th.relevance},
                 noveltyThreshold : {th.novelty},
                 concurrency : 1..MaxConcurrency,
                 noveltyTracker : trackers,
                 existingIds : existing]
  /\ pc = "called"
  /\ validItems = << >>
  /\ decisions = << >>
  /\ classified = << >>
  /\ filteredItems = << >>
  /\ result = NoResult
  /\ seenIds = {}
  /\ flushes = 0

(***************************************************************************)
(* LRUCache (embeddings.js) used on its own: get and set in any order      *)
(***************************************************************************)
\* the keys and the values the callers use: one key more than the largest
\* cache holds
CacheKeys == 1..(MaxCacheSize + 1)

CacheValues == { <<1>>, <<2>> }

NoLruCall == [op |-> "none", key |-> 0, value |-> NoEmbedding]

\* new LRUCache(maxSize)
NewLRUCache(sizes) ==
  /\ lruCache = << >>
  /\ lruMaxSize \in sizes
  /\ lruRet = NoLruCall
  /\ lastUse = [k \in CacheKeys |-> 0]
  /\ uses = 0

\* no LRUCache is used on its own
CacheIdle == NewLRUCache({DEFAULT_CACHE_SIZE})

\* cache.get(key): null (NoEmbedding) for a miss
CacheGet(k) ==
  /\ uses < MaxUses
  /\ lruRet' = [op |-> "get", key |-> k, value |-> LruValue(lruCache, k)]
  /\ lruCache' = LruAfterGet(lruCache, k)
  /\ uses' = uses + 1
  /\ lastUse' = IF LruHas(lruCache, k) THEN [lastUse EXCEPT ![k] = uses + 1]
                ELSE lastUse
  /\ UNCHANGED lruMaxSize

\* cache.set(key, value)
CacheSet(k, v) ==
  /\ uses < MaxUses
  /\ lruRet' = [op |-> "set", key |-> k, value |-> v]
  /\ lruCache' = LruSet(lruCache, lruMaxSize, k, v)
  /\ uses' = uses + 1
  /\ lastUse' = [lastUse EXCEPT ![k] = uses + 1]
  /\ UNCHANGED lruMaxSize

CacheNext ==
  \/ \E k \in CacheKeys : CacheGet(k) /\ UNCHANGED notCache
  \/ \E k \in CacheKeys, v \in CacheValues : CacheSet(k, v) /\ UNCHANGED notCache

(***************************************************************************)
(* The shared pipeline (embeddings.js): init() and embed() calls of one or *)
(* several EmbeddingContexts, each suspended at its awaits                 *)
(***************************************************************************)
Callers == 1..MaxCallers

NoCaller == [op |-> "none", pc |-> "idle", load |-> 0]

\* the module has just been loaded, `let sharedPipeline = null`, and these
\* calls are going to be made
NewProcess(calling) ==
  /\ sharedPipeline = 0
  /\ pipelineCalls = 0
  /\ callers = [p \in calling |-> NoCaller]

\* nothing calls init() or embed() directly
PipelineIdle == NewProcess({})

\* the body of init() up to `await pipeline(...)`, run for caller p by
\* init() itself or by embed(); an embed() that finds the pipeline goes on
\* to `await this._computeEmbedding(text)`
InitBody(p, op) ==
  IF sharedPipeline # 0
  THEN /\ callers' = [callers EXCEPT ![p] =
                        [op |-> op, pc |-> IF op = "init" THEN "returned"
                                           ELSE "computing", load |-> 0]]
       /\ UNCHANGED <<sharedPipeline, pipelineCalls>>
  ELSE /\ pipelineCalls' = pipelineCalls + 1
       /\ callers' = [callers EXCEPT ![p] =
                        [op |-> op, pc |-> "loading",
                         load |-> pipelineCalls + 1]]
       /\ UNCHANGED sharedPipeline

\* ctx.init()
InitCall(p) ==
  /\ callers[p].pc = "idle"
  /\ InitBody(p, "init")

\* ctx.embed(text) of a text the context's cache does not hold:
\* `if (!sharedPipeline) await this.init()`
EmbedCall(p) ==
  /\ callers[p].pc = "idle"
  /\ InitBody(p, "embed")

\* pipeline(...) settles for caller p: init() stores the result in
\* sharedPipeline and returns, or the rejection is thrown by the call
PipelineAnswers(p, ok) ==
  /\ callers[p].pc = "loading"
  /\ IF ok
     THEN /\ sharedPipeline' = callers[p].load
          /\ callers' = [callers EXCEPT ![p].pc =
                           IF callers[p].op = "init" THEN "returned"
                           ELSE "computing"]
     ELSE /\ callers' = [callers EXCEPT ![p].pc = "threw"]
          /\ UNCHANGED sharedPipeline
  /\ UNCHANGED pipelineCalls

\* the embedding of the text is computed and embed() returns it
EmbedAnswers(p) ==
  /\ callers[p].pc = "computing"
  /\ callers' = [callers EXCEPT ![p].pc = "returned"]
  /\ UNCHANGED <<sharedPipeline, pipelineCalls>>

PipelineNext ==
  \/ \E p \in Callers : InitCall(p) /\ UNCHANGED notPipe
  \/ \E p \in Callers : EmbedCall(p) /\ UNCHANGED notPipe
  \/ \E p \in Callers, ok \in BOOLEAN : PipelineAnswers(p, ok) /\ UNCHANGED notPipe
  \/ \E p \in Callers : EmbedAnswers(p) /\ UNCHANGED notPipe

\* a run with the caller's NoveltyTracker, or a run without one
InitFilter ==
  /\ \/ /\ TrackerInit({0})
        /\ FilterInit([relevance : RelevanceThresholds,
                       novelty : NoveltyThresholds], {TRUE}, {{}})
     \/ /\ TrackerIdle
        /\ FilterInit(UnseenThresholds, {FALSE}, ExistingIdsArgs)
  /\ EmbedIdle
  /\ AdapterIdle
  /\ ClassifyIdle
  /\ ScoreIdle
  /\ CacheIdle
  /\ PipelineIdle
  /\ OverlapIdle

SpecFilter == InitFilter /\ [][FilterNext]_vars

\* a tracker used on its own, over storage written by earlier runs of this
\* program: no timestamp is later than the clock
InitTracker ==
  /\ TrackerInit({0})
  /\ EmbedIdle
  /\ FilterIdle
  /\ AdapterIdle
  /\ ClassifyIdle
  /\ ScoreIdle
  /\ CacheIdle
  /\ PipelineIdle
  /\ OverlapIdle

SpecTracker == InitTracker /\ [][TrackerNext]_vars

\* a tracker over storage holding any timestamp, also one ahead of this
\* process's clock
InitTrackerAnyStore ==
  /\ TrackerInit({0, InitialNow + 1})
  /\ EmbedIdle
  /\ FilterIdle
  /\ AdapterIdle
  /\ ClassifyIdle
  /\ ScoreIdle
  /\ CacheIdle
  /\ PipelineIdle
  /\ OverlapIdle

SpecTrackerAnyStore == InitTrackerAnyStore /\ [][TrackerNext]_vars

SpecFailingStore == InitTracker /\ [][FailingStoreNext]_vars

\* an EmbeddingContext used on its own
InitEmbed ==
  /\ TrackerIdle
  /\ EmbedInit
  /\ FilterIdle
  /\ AdapterIdle
  /\ ClassifyIdle
  /\ ScoreIdle
  /\ CacheIdle
  /\ PipelineIdle
  /\ OverlapIdle

SpecEmbed == InitEmbed /\ [][EmbedNext]_vars

\* the concurrency option as any whole number a caller may pass, 0 and a
\* negative one included
AnyWidths == (0 - 1)..MaxConcurrency

InitEmbedAnyWidth ==
  /\ TrackerIdle
  /\ NewEmbeddingContext(SeqsUpTo(ScoredItems, MaxItems), AnyWidths)
  /\ FilterIdle
  /\ AdapterIdle
  /\ ClassifyIdle
  /\ ScoreIdle
  /\ CacheIdle
  /\ PipelineIdle
  /\ OverlapIdle

EmbedAnyWidthNext ==
  \/ EmbedNext
  \/ BatchTurn /\ UNCHANGED notEmbed

\* every embedding call in flight is answered, with a vector or an error,
\* and a loop that can resume does: the event loop runs every continuation
EmbedFairness ==
  /\ \A k \in 1..MaxItems :
       WF_vars(\E ok \in BOOLEAN : ProviderAnswers(k, ok) /\ UNCHANGED notEmbed)
  /\ WF_vars(BatchTurn /\ UNCHANGED notEmbed)

SpecEmbedAnyWidth ==
  InitEmbedAnyWidth /\ [][EmbedAnyWidthNext]_vars /\ EmbedFairness

\* a FileStorageAdapter or LocalStorageAdapter called directly
InitAdapter ==
  /\ TrackerIdle
  /\ EmbedIdle
  /\ FilterIdle
  /\ NewAdapter(AdapterKinds)
  /\ ClassifyIdle
  /\ ScoreIdle
  /\ CacheIdle
  /\ PipelineIdle
  /\ OverlapIdle

SpecAdapter == InitAdapter /\ [][AdapterNext]_vars

\* a FilterContext whose classifySignalType is called directly
InitClassify ==
  /\ TrackerIdle
  /\ EmbedIdle
  /\ FilterIdle
  /\ AdapterIdle
  /\ NewFilterContext(KeywordSets, GlobalKeywordLists)
  /\ ScoreIdle
  /\ CacheIdle
  /\ PipelineIdle
  /\ OverlapIdle

SpecClassify == InitClassify /\ [][ClassifyNext]_vars

\* calculateSignalScore called directly
InitScore ==
  /\ TrackerIdle
  /\ EmbedIdle
  /\ FilterIdle
  /\ AdapterIdle
  /\ ClassifyIdle
  /\ NewScoring(WeightTriples)
  /\ CacheIdle
  /\ PipelineIdle
  /\ OverlapIdle

SpecScore == InitScore /\ [][ScoreNext]_vars

\* an LRUCache of a small size used on its own
InitCache ==
  /\ TrackerIdle
  /\ EmbedIdle
  /\ FilterIdle
  /\ AdapterIdle
  /\ ClassifyIdle
  /\ ScoreIdle
  /\ NewLRUCache(1..MaxCacheSize)
  /\ PipelineIdle
  /\ OverlapIdle

SpecCache == InitCache /\ [][CacheNext]_vars

\* init() and embed() calls in a process that has just loaded the module
InitPipeline ==
  /\ TrackerIdle
  /\ EmbedIdle
  /\ FilterIdle
  /\ AdapterIdle
  /\ ClassifyIdle
  /\ ScoreIdle
  /\ CacheIdle
  /\ NewProcess(Callers)
  /\ OverlapIdle

SpecPipeline == InitPipeline /\ [][PipelineNext]_vars

\* a new FileStorageAdapter, with room for every id, on which a save and
\* another load or save are called together
InitOverlap ==
  /\ TrackerIdle
  /\ EmbedIdle
  /\ FilterIdle
  /\ NewAdapter({"file"})
  /\ adapter.maxEntries = Cardinality(Ids)
  /\ ClassifyIdle
  /\ ScoreIdle
  /\ CacheIdle
  /\ PipelineIdle
  /\ overlapping \in [OverlapCalls -> OverlapArgs]
  /\ overlapping[1].op = "save"

SpecOverlap == InitOverlap /\ [][OverlapNext]_vars

(***************************************************************************)
(* Claims about NoveltyTracker                                             *)
(***************************************************************************)

\* C6: markSeen(id) on an id that has a record keeps firstSeen, sets lastSeen
\* to the current time and adds exactly 1 to seenCount; on an id without a
\* record it creates one with firstSeen = lastSeen = now and seenCount = 1.
C6_MarkSeenRecord ==
  [][\A id \in Ids :
       MarkSeen(id) =>
         /\ Has(cache', id) /\ cache'[id].itemId = id
         /\ cache'[id].lastSeen = now
         /\ IF Has(cache, id)
            THEN /\ cache'[id].firstSeen = cache[id].firstSeen
                 /\ cache'[id].seenCount = cache[id].seenCount + 1
            ELSE /\ cache'[id].firstSeen = now
                 /\ cache'[id].seenCount = 1]_vars

\* a record created by markSeen in this tracker and sighted again later
C6_Witness ==
  \E id \in Ids :
    /\ Has(cache, id)
    /\ cache[id].firstSeen >= InitialNow
    /\ cache[id].lastSeen > cache[id].firstSeen
    /\ cache[id].seenCount = 2

\* C7: for any sequence of loadBatch, markSeen and flush, once a record for an
\* id exists its firstSeen never changes, neither in the tracker's cache nor
\* in the persisted storage.
C7_FirstSeenNeverChanges ==
  [][\A id \in Ids :
       /\ (Has(cache, id) /\ Has(cache', id))
            => cache'[id].firstSeen = cache[id].firstSeen
       /\ (Has(storeData, id) /\ Has(storeData', id))
            => storeData'[id].firstSeen = storeData[id].firstSeen]_vars

\* C8: getNoveltyScore(id) is always within [minScore, 1.0], for every record
\* the cache can hold (created by markSeen or loaded from storage with any
\* firstSeen), and is exactly 1.0 for an id without a record.
C8_NoveltyInRange ==
  \A id \in Ids :
    /\ GetNoveltyScore(id) >= minScore
    /\ GetNoveltyScore(id) <= Scale
    /\ ~Has(cache, id) => GetNoveltyScore(id) = Scale

ScoreAfter(id) == NoveltyOf(cache', id, now', halfLifeDays', minScore')

\* C9 as stated: 1.0 right after the first markSeen, strictly decreasing
\* whenever time elapses, unchanged by later markSeen calls, never below
\* minScore.
C9_StrictlyDecreasing ==
  [][\A id \in Ids :
       LET before == GetNoveltyScore(id)
           after  == ScoreAfter(id)
       IN  /\ (MarkSeen(id) /\ ~Has(cache, id)) => after = Scale
           /\ (MarkSeen(id) /\ Has(cache, id)) => after = before
           /\ (Tick /\ Has(cache, id)) => after < before
           /\ Has(cache', id) => after >= minScore]_vars

\* C9 as amended: 1.0 right after the first markSeen, never increasing as time
\* elapses, strictly decreasing while the score is above minScore and
\* constant once it has reached minScore, unchanged by later markSeen calls,
\* never below minScore.
C9_DecreasingDownToFloor ==
  [][\A id \in Ids :
       LET before == GetNoveltyScore(id)
           after  == ScoreAfter(id)
       IN  /\ (MarkSeen(id) /\ ~Has(cache, id)) => after = Scale
           /\ (MarkSeen(id) /\ Has(cache, id)) => after = before
           /\ (Tick /\ Has(cache, id)) =>
                /\ after <= before
                /\ before > minScore => after < before
                /\ before = minScore => after = minScore
           /\ Has(cache', id) => after >= minScore]_vars

\* a record created by markSeen, sighted again, whose score has decayed
\* below 1.0 and is still above the floor
C9_Witness ==
  \E id \in Ids :
    /\ Has(cache, id)
    /\ cache[id].firstSeen >= InitialNow
    /\ cache[id].seenCount = 2
    /\ now > cache[id].firstSeen
    /\ GetNoveltyScore(id) < Scale
    /\ GetNoveltyScore(id) > minScore

C11_EmptyFlushIsNoOp ==
  [][(FlushCall /\ pendingUpdates = EmptyMap) =>
       UNCHANGED <<storeData, cache, pendingUpdates, flushOp>>]_vars

\* nothing is pending after an earlier flush has completed, so that a flush
\* called here finds the pending set empty; the store and the cache hold
\* records
C11_Witness ==
  /\ pendingUpdates = EmptyMap /\ flushOp = NoOp /\ loadOp = NoOp
  /\ \E id \in Ids :
       Has(storeData, id) /\ Has(cache, id) /\ storeData[id].seenCount > 1

\* C12: markSeen leaves the persisted state as it is, and the persisted state
\* changes in no step other than a call of flush.
C12_StoreChangesOnlyAtFlush ==
  [][/\ \A id \in Ids : MarkSeen(id) => storeData' = storeData
     /\ storeData' # storeData => FlushCall]_vars

\* markSeen has recorded an update that the store does not hold
C12_Witness ==
  \E id \in Ids :
    /\ Has(pendingUpdates, id)
    /\ Has(storeData, id)
    /\ storeData[id] # pendingUpdates[id]
    /\ flushOp = NoOp

(***************************************************************************)
(* Claims about EmbeddingContext                                           *)
(***************************************************************************)
TaskText(k) == ItemText(ItemPool[tasks[k].item])

\* C1: in a batchRelevanceScores run with the context set, a provider failure
\* for one item does not abort the batch: the run never ends in an error, and
\* when it is done every item's id has a score.
C1_ProviderFailureScoresZero ==
  (batch.status # "idle" /\ batch.hadContext) =>
    /\ batch.status # "failed"
    /\ batch.status = "done" =>
         \A n \in 1..Len(batch.items) : Has(batch.scores, ItemPool[batch.items[n]].id)

\* C2: the provider returns at most one embedding per distinct text, no two
\* calls of one concurrent group reach the provider with the same text, and
\* calls with identical text that returned got identical scores.
C2_OneProviderCallPerText ==
  /\ \A t \in Texts : embedded[t] <= 1
  /\ \A j, k \in 1..Len(tasks) :
       (j # k /\ TaskText(j) = TaskText(k)) =>
         /\ ~(tasks[j].invoked /\ tasks[k].invoked)
         /\ (tasks[j].st = "fulfilled" /\ tasks[k].st = "fulfilled") =>
              tasks[j].score = tasks[k].score

\* C5: a batchRelevanceScores run started while no context is set fails: every
\* getRelevanceScore call it made was rejected with the missing-context error,
\* whatever the item's text, and none of them reached the provider.
C5_NoContextFailsEveryCall ==
  (batch.status # "idle" /\ ~batch.hadContext) =>
    /\ \A k \in 1..Len(tasks) :
         /\ tasks[k].st = "rejected"
         /\ tasks[k].err = "NoContext"
         /\ ~tasks[k].invoked
    /\ batch.items # << >> => (batch.status = "failed" /\ tasks # << >>)
    /\ batch.scores = EmptyMap

\* a run without context that called getRelevanceScore for an item with empty
\* text and for one with text
C5_Witness ==
  /\ batch.status = "failed" /\ ~batch.hadContext
  /\ \E j, k \in 1..Len(tasks) : TaskText(j) = NoText /\ TaskText(k) # NoText

\* the getRelevanceScore calls of the running batch that have not settled
InFlight == { k \in 1..Len(tasks) : tasks[k].st = "pending" }

\* C21: while a batchRelevanceScores call with width c >= 1 runs, the calls
\* it has made and not merged are those of one group, the at most c items
\* from position i on, so at most c are in flight; and a later group starts
\* only in the step in which the last call in flight of the group before it
\* returns, none of that group having failed.
C21_AtMostWidthInFlight ==
  /\ [](batch.status = "running" =>
          /\ Cardinality(InFlight) <= batch.concurrency
          /\ Len(tasks) <= batch.concurrency
          /\ \A k \in 1..Len(tasks) : tasks[k].item = batch.items[batch.i + k])
  /\ [][(batch.status = "running" /\ batch'.i # batch.i) =>
          /\ batch'.i > batch.i
          /\ (batch'.i - batch.i) % batch.concurrency = 0
          /\ Cardinality(InFlight) = 1
          /\ \A k \in 1..Len(tasks) : tasks[k].st # "rejected"]_vars

\* a batch of width 2 whose second group is in flight
C21_Witness ==
  /\ batch.status = "running"
  /\ batch.concurrency = 2
  /\ batch.i = 2
  /\ InFlight # {}

(***************************************************************************)
(* Claims about filterItems                                                *)
(***************************************************************************)
\* the loop iterations that met both thresholds, for pool item i
PassingPositions(i) ==
  { n \in 1..Len(decisions) :
      /\ decisions[n].item = i
      /\ decisions[n].relevance >= call.relevanceThreshold
      /\ decisions[n].novelty >= call.noveltyThreshold }

Occurrences(list, i) == { m \in 1..Len(list) : list[m].item = i }

BadContext == ~call.context.isString \/ call.context.text = NoText

NoItemsSupplied == ~call.items.given \/ call.items.list = << >>

\* C4: a filterItems call whose context is empty or not a string, or that
\* was given no items, ends with an error and returns nothing, for every
\* combination of the two arguments.
C4_InputErrorsFailTheRun ==
  (pc # "called" /\ (BadContext \/ NoItemsSupplied)) =>
    (pc = "threw" /\ ~result.returned)

\* C4 as amended: given no items (absent or an empty list) the call returns
\* an empty list without error, whatever the context; given at least one
\* item and a context that is empty or not a string it ends with an error,
\* returns nothing and has touched neither the embeddings nor the tracker.
C4_BadContextFailsUnlessNoItems ==
  pc # "called" =>
    /\ NoItemsSupplied =>
         (pc = "returned" /\ result = [returned |-> TRUE, list |-> << >>])
    /\ (~NoItemsSupplied /\ BadContext) =>
         /\ pc = "threw" /\ ~result.returned
         /\ setCtxOp = NoOp /\ contextEmbedding = NoEmbedding
         /\ batchCalls = 0 /\ cache = EmptyMap /\ pendingUpdates = EmptyMap

\* a call without items and with a context that is not a string has returned
C4_Witness ==
  /\ pc = "returned"
  /\ call.items.given /\ call.items.list = << >>
  /\ ~call.context.isString

\* C16 as stated: every filterItems run with a NoveltyTracker that returns
\* has called the tracker's flush exactly once.
C16_EveryRunFlushesOnce ==
  (call.noveltyTracker /\ pc = "returned") => flushes = 1

\* the loop is over and every valid item has been marked seen
AllMarked ==
  /\ Len(decisions) = Len(validItems)
  /\ \A id \in ItemIds(validItems) : Has(cache, id)

\* C16 as amended: a filterItems run with a NoveltyTracker that returns after
\* processing at least one valid item has called flush exactly once, after
\* the last markSeen of the run, and that flush made the only storage.save of
\* the run, with a record for every valid item id; on return nothing is
\* pending and the store holds the tracker's record of every valid item id,
\* kept or dropped.  A run whose input holds no valid item returns without
\* calling flush.
C16_OneFlushAfterLastMarkSeen ==
  /\ []((call.noveltyTracker /\ pc = "returned") =>
          IF validItems = << >>
          THEN flushes = 0
          ELSE /\ flushes = 1
               /\ pendingUpdates = EmptyMap
               /\ flushOp = NoOp
               /\ AllMarked
               /\ \A id \in ItemIds(validItems) :
                    Has(storeData, id) /\ storeData[id] = cache[id])
  /\ [][(call.noveltyTracker
           /\ (flushes' # flushes \/ storeData' # storeData
                 \/ (flushOp = NoOp /\ flushOp' # NoOp))) =>
          /\ flushes = 0 /\ flushes' = 1
          /\ AllMarked'
          /\ flushOp'.records = pendingUpdates'
          /\ \A id \in ItemIds(validItems) :
               /\ Has(pendingUpdates', id)
               /\ pendingUpdates'[id] = cache'[id]
               /\ storeData'[id] = cache'[id]]_vars
  /\ [][flushes > 0 => cache' = cache]_vars

\* a run that returned after dropping, for its relevance, an item the store
\* had never held; the store now holds its record
C16_Witness ==
  /\ call.noveltyTracker
  /\ pc = "returned"
  /\ flushes = 1
  /\ \E n \in 1..Len(decisions) :
       LET id == ItemPool[decisions[n].item].id
       IN  /\ decisions[n].relevance < call.relevanceThreshold
           /\ Has(storeData, id)
           /\ storeData[id].seenCount = 1
           /\ storeData[id].firstSeen >= InitialNow

\* the id of the item of loop iteration n
DecisionId(n) == ItemPool[decisions[n].item].id

\* iteration n is the first of the run for its id, and the id is not one of
\* existingIds
FirstUnseen(n) ==
  /\ DecisionId(n) \notin call.existingIds
  /\ \A m \in 1..(n - 1) : DecisionId(m) # DecisionId(n)

\* C17: in a filterItems run without a NoveltyTracker, the first occurrence
\* of an id that is not in existingIds has novelty 1.0 and every other
\* occurrence has novelty 0; the run returns, for each id, the item of that
\* first occurrence if its relevance is >= relevanceThreshold and nothing
\* else, whatever noveltyThreshold is.
C17_BinaryNoveltyWithoutTracker ==
  (~call.noveltyTracker /\ pc = "returned" /\ validItems # << >>) =>
    /\ Len(decisions) = Len(validItems)
    /\ \A n \in 1..Len(decisions) :
         decisions[n].novelty = IF FirstUnseen(n) THEN Scale ELSE 0
    /\ \A m \in 1..Len(result.list) :
         \E n \in 1..Len(decisions) :
           /\ FirstUnseen(n)
           /\ decisions[n].item = result.list[m].item
           /\ decisions[n].relevance >= call.relevanceThreshold
    /\ \A n \in 1..Len(decisions) :
         Cardinality({ m \in 1..Len(result.list) :
                        ItemPool[result.list[m].item].id = DecisionId(n) })
           = IF \E k \in 1..Len(decisions) :
                   /\ DecisionId(k) = DecisionId(n)
                   /\ FirstUnseen(k)
                   /\ decisions[k].relevance >= call.relevanceThreshold
             THEN 1 ELSE 0

\* a run with noveltyThreshold 0 that returned the first occurrence of an id
\* and dropped a later one whose relevance was high enough
C17_Witness ==
  /\ ~call.noveltyTracker
  /\ pc = "returned"
  /\ call.noveltyThreshold = 0
  /\ Len(result.list) = 1
  /\ \E n \in 1..Len(decisions) :
       /\ ~FirstUnseen(n)
       /\ DecisionId(n) \notin call.existingIds
       /\ decisions[n].novelty = 0
       /\ decisions[n].relevance >= call.relevanceThreshold

(***************************************************************************)
(* Claims about the storage adapters                                       *)
(***************************************************************************)
\* C13: an adapter call during which a backend operation failed ends with an
\* error, whatever the adapter; it never returns as if it had succeeded (the
\* tracker's loadBatch and flush, and filterItems, await it without a catch).
C13_BackendFailurePropagates == done.failed => done.threw

\* C14: after a save of a File- or LocalStorageAdapter the Map holds at most
\* maxEntries records, what a successful save has written is that Map, and
\* no record it kept has an older lastSeen than a record it dropped.
C14_CapKeepsNewest ==
  lastSaved.saves > 0 =>
    /\ Len(adapterData.entries) <= adapter.maxEntries
    /\ adapterData.entries = lastSaved.entries
    /\ (done.call = "save" /\ ~done.failed /\ io = NoIo) =>
         medium = Written(adapterData.entries)
    /\ \A kept \in Range(lastSaved.entries), gone \in lastSaved.dropped :
         kept.lastSeen >= gone.lastSeen

\* a save has returned that dropped a record older than one it kept
C14_Witness ==
  /\ done.call = "save" /\ ~done.threw /\ io = NoIo
  /\ Len(adapterData.entries) = adapter.maxEntries
  /\ \E kept \in Range(lastSaved.entries), gone \in lastSaved.dropped :
       kept.lastSeen > gone.lastSeen

\* C15: what is persisted changes in no step other than a save, and a save
\* of the records of the save before it leaves the adapter's records as that
\* one left them.
C15_WholeIdempotentFlushes ==
  /\ [][medium' # medium =>
          (io.call = "save" \/ (io = NoIo /\ done'.call = "save"))]_vars
  /\ [](lastSaved.repeats =>
          Range(lastSaved.entries) = Range(lastSaved.previous))

(***************************************************************************)
(* Claims about classifySignalType                                         *)
(***************************************************************************)
\* every keyword the FilterContext holds, of any kind
AllKeywords ==
  { userGlobalKeywords[k] : k \in 1..Len(userGlobalKeywords) }
    \cup UNION { { signalKeywords[t][kind][k] : k \in 1..Len(signalKeywords[t][kind]) } :
                   t \in SignalTypes, kind \in {"exact", "generic"} }

\* C18: whatever the item and the keywords, classifySignalType returns one
\* type out of competitive, thesis-challenging, opportunity, technical and
\* trend, with a confidence; and when the item's text has none of the
\* keywords, global, exact or generic, it returns technical with low
\* confidence, no matched keyword and isWatched = false.
C18_OneOfFiveTypes ==
  classification # NoClassification =>
    /\ classification.type \in SignalTypes
    /\ classification.keywordConfidence \in {"high", "medium", "low"}
    /\ (\A k \in AllKeywords : ~HasKeyword(ClassifiedText(classifyArg), k)) =>
         classification = [type |-> "technical", keywordConfidence |-> "low",
                           matchedKeyword |-> NoKeyword, isWatched |-> FALSE]

\* an item classified by a FilterContext that holds a global, an exact and a
\* generic keyword, none of them in the item's text
C18_Witness ==
  /\ classification # NoClassification
  /\ classification.keywordConfidence = "low"
  /\ userGlobalKeywords # << >>
  /\ \E t \in SignalTypes : signalKeywords[t].exact # << >>
  /\ \E t \in SignalTypes : signalKeywords[t].generic # << >>
  /\ \A k \in AllKeywords : ~HasKeyword(ClassifiedText(classifyArg), k)

(***************************************************************************)
(* Claims about calculateSignalScore and scoreAndSortSignals               *)
(***************************************************************************)
\* C19: the composite score calculateSignalScore gives is an integer from 0
\* to 100, whatever the item, its relevance input and the weights.
C19_CompositeWithin0And100 ==
  scored.called =>
    /\ ~scored.signalScore.nan
    /\ scored.signalScore.value >= 0
    /\ scored.signalScore.value <= 100

\* the signals of the list whose composite score is s, in the list's order,
\* as filterItems built them
RECURSIVE SignalsScoring(_, _)
SignalsScoring(list, s) ==
  IF list = << >> THEN << >>
  ELSE LET x == Head(list)
       IN  IF SignalScore(x) = s
           THEN <<[item |-> x.item, relevance_score |-> x.relevance_score,
                   novelty_score |-> x.novelty_score]>>
                  \o SignalsScoring(Tail(list), s)
           ELSE SignalsScoring(Tail(list), s)

CacheAfter(k) ==
  Loop([cache |-> cache, pendingUpdates |-> pendingUpdates, seenIds |-> seenIds,
        decisions |-> << >>, classified |-> << >>, filteredItems |-> << >>],
       SubSeq(validItems, 1, k), batch.scores, now, halfLifeDays, minScore,
       call).cache

\* the positions of validItems whose item has the id of position k
SameIdAs(k) ==
  { j \in 1..Len(validItems) :
      ItemPool[validItems[j]].id = ItemPool[validItems[k]].id }

\* C22: with a NoveltyTracker, the loop of filterItems starts only when every
\* relevance call of the batch has settled, and it takes the valid items in
\* input order: the k-th decision is about the k-th valid item and its
\* novelty is read from the records the earlier iterations left; markSeen of
\* a later occurrence of an id writes a seenCount strictly above the one the
\* previous occurrence wrote, and the record the loop leaves has counted
\* every occurrence of the id.
C22_MarkSeenInInputOrder ==
  [][(FilterLoop /\ call.noveltyTracker) =>
       /\ batch.status = "done"
       /\ \A n \in 1..Len(tasks) : tasks[n].st # "pending"
       /\ Len(decisions') = Len(validItems)
       /\ \A k \in 1..Len(validItems) :
            LET id == ItemPool[validItems[k]].id
            IN  /\ decisions'[k].item = validItems[k]
                /\ decisions'[k].novelty =
                     NoveltyOf(CacheAfter(k - 1), id, now, halfLifeDays, minScore)
                /\ \A j \in SameIdAs(k) :
                     j < k => CacheAfter(k)[id].seenCount
                                > CacheAfter(j)[id].seenCount
                /\ cache'[id].seenCount =
                     (IF Has(cache, id) THEN cache[id].seenCount ELSE 0)
                       + Cardinality(SameIdAs(k))]_vars

\* the loop has run over a list naming one id twice, new to the tracker, and
\* left a record counting both
C22_Witness ==
  /\ pc = "flush"
  /\ \E k \in 1..Len(validItems) :
       /\ Cardinality(SameIdAs(k)) = 2
       /\ cache[ItemPool[validItems[k]].id].seenCount = 2

\* the positions in SIGNAL_TYPES of the categories holding a keyword of the
\* kind that the classified item's text has
TypesMatching(kind) ==
  { k \in 1..Len(SIGNAL_TYPES) :
      \E n \in 1..Len(signalKeywords[SIGNAL_TYPES[k]][kind]) :
        HasKeyword(ClassifiedText(classifyArg),
                   signalKeywords[SIGNAL_TYPES[k]][kind][n]) }

\* C23: when the item's text has an exact keyword of some category,
\* classifySignalType returns the first category, in the order competitive,
\* thesis-challenging, opportunity, technical, trend, that holds such a
\* keyword, with high confidence and an exact keyword of that category as
\* the matched one, whatever generic keywords the text has as well.
C23_ExactBeforeGeneric ==
  (classification # NoClassification /\ TypesMatching("exact") # {}) =>
    LET first == CHOOSE k \in TypesMatching("exact") :
                   \A m \in TypesMatching("exact") : k <= m
    IN  /\ classification.type = SIGNAL_TYPES[first]
        /\ classification.keywordConfidence = "high"
        /\ \E n \in 1..Len(signalKeywords[SIGNAL_TYPES[first]].exact) :
             classification.matchedKeyword =
               Keyword(signalKeywords[SIGNAL_TYPES[first]].exact[n])

\* an item whose text has a generic keyword of an earlier category and an
\* exact keyword of a later one, classified as the later category
C23_Witness ==
  /\ classification # NoClassification
  /\ \E g \in TypesMatching("generic"), e \in TypesMatching("exact") :
       /\ g < e
       /\ classification.type = SIGNAL_TYPES[e]

(***************************************************************************)
(* Claims about LRUCache and the shared pipeline                           *)
(***************************************************************************)
HeldKeys(c) == { c[n][1] : n \in 1..Len(c) }

\* C24: an LRUCache of maxSize 1 or more never holds more than maxSize
\* entries, nor two entries of one key; get changes no key and no value and
\* returns the value held; a set of a key the cache holds, or into a cache
\* that is not full, evicts nothing; and a set of a new key into a full
\* cache evicts exactly the key whose last use, a get hit or a set, is the
\* oldest.
C24_BoundedLeastRecentlyUsedOut ==
  /\ [](/\ Len(lruCache) <= lruMaxSize
        /\ Cardinality(HeldKeys(lruCache)) = Len(lruCache))
  /\ [][\A k \in CacheKeys :
          /\ CacheGet(k) =>
               /\ HeldKeys(lruCache') = HeldKeys(lruCache)
               /\ \A h \in HeldKeys(lruCache) :
                    LruValue(lruCache', h) = LruValue(lruCache, h)
               /\ lruRet'.value = LruValue(lruCache, k)
          /\ \A v \in CacheValues :
               CacheSet(k, v) =>
                 /\ LruValue(lruCache', k) = v
                 /\ IF k \in HeldKeys(lruCache) \/ Len(lruCache) < lruMaxSize
                    THEN HeldKeys(lruCache') = HeldKeys(lruCache) \cup {k}
                    ELSE \E e \in HeldKeys(lruCache) :
                           /\ \A h \in HeldKeys(lruCache) :
                                lastUse[e] <= lastUse[h]
                           /\ HeldKeys(lruCache') =
                                (HeldKeys(lruCache) \ {e}) \cup {k}]_vars

\* a full cache of two entries has evicted a key that was set after the
\* older of the two it holds: a get hit had renewed that one
C24_Witness ==
  /\ lruRet.op = "set"
  /\ lruMaxSize = 2
  /\ Len(lruCache) = 2
  /\ lruCache[1][1] = 1
  /\ lruCache[2][1] = 3
  /\ lastUse[2] = 2
  /\ lastUse[1] = 3
  /\ lastUse[3] = 4

\* C25: whatever the order in which init() and embed() calls of one or
\* several EmbeddingContexts start and resume, the model-loading call
\* pipeline(...) is made at most once in the process.
\* Checked for the processes in which no load has failed, where a second
\* call cannot be a retry.
C25_PipelineLoadedAtMostOnce ==
  (\A p \in Callers : callers[p].pc # "threw") => pipelineCalls <= 1

\* C26: a batchRelevanceScores call whose embedding calls are all answered
\* comes to an end, returning the scores or throwing, for every list of
\* items and every concurrency, 0 and negative numbers included.
C26_BatchTerminates ==
  (batch.status = "running") ~> (batch.status \in {"done", "failed"})

(***************************************************************************)
(* Claims about flush and the calls that overlap it                        *)
(***************************************************************************)
\* C27: when flush returns, every update that markSeen had put in the
\* pending set, also one made while flush was waiting for storage.save, is
\* either in storage as markSeen wrote it or still pending for the next
\* flush.
C27_NoUpdateLostToFlush ==
  [][FlushResume =>
       \A id \in DOMAIN pendingUpdates :
         \/ Has(storeData', id) /\ storeData'[id] = pendingUpdates[id]
         \/ Has(pendingUpdates', id) /\ pendingUpdates'[id] = pendingUpdates[id]]_vars

\* C28: when storage.save rejects, flush throws and changes neither the
\* pending set nor the cache; every record the failed flush was to save
\* stays pending, as it was or as a later markSeen renewed it, and the next
\* flush hands every pending record to storage.
C28_FailedFlushKeepsPending ==
  /\ [](flushOp.op = "threw" =>
          \A id \in DOMAIN flushOp.records :
            /\ Has(pendingUpdates, id) /\ Has(cache, id)
            /\ pendingUpdates[id] = cache[id]
            /\ pendingUpdates[id].firstSeen = flushOp.records[id].firstSeen
            /\ pendingUpdates[id].seenCount >= flushOp.records[id].seenCount)
  /\ [][/\ FlushThrows =>
             /\ flushOp'.op = "threw"
             /\ pendingUpdates' = pendingUpdates
             /\ cache' = cache
        /\ (flushOp.op = "threw" /\ FlushCall) =>
             \A id \in DOMAIN pendingUpdates :
               Has(storeData', id) /\ storeData'[id] = pendingUpdates[id]]_vars

\* a flush has thrown, a record it was to save has been renewed by markSeen
\* since, and storage does not have it yet
C28_Witness ==
  /\ flushOp.op = "threw"
  /\ \E id \in DOMAIN flushOp.records :
       /\ pendingUpdates[id].seenCount > flushOp.records[id].seenCount
       /\ ~Has(storeData, id)

(***************************************************************************)
(* Claims about repeated ids and overlapping adapter calls                 *)
(***************************************************************************)
\* C29: the list filterItems returns holds at most one entry of an id, also
\* when the input names the id several times, with a NoveltyTracker and
\* without one.
C29_OneEntryPerId ==
  pc = "returned" =>
    \A m, n \in 1..Len(result.list) :
      m # n => ItemPool[result.list[m].item].id # ItemPool[result.list[n].item].id

\* C30: when two calls on one FileStorageAdapter, two saves or a save and a
\* load, overlap at their awaits, also on first use, then after both have
\* completed the adapter's data and the file hold the records of every
\* save.
C30_OverlappingSavesKeepRecords ==
  (\A p \in OverlapCalls : overlapping[p].at = "done") =>
    \A p \in OverlapCalls :
      \A k \in 1..Len(overlapping[p].records) :
        /\ overlapping[p].records[k] \in Range(adapterData.entries)
        /\ overlapping[p].records[k] \in Range(medium.entries)

====
